---- MODULE Spec2Model ----
(***************************************************************************)
(* One conversational turn of the knowledge-gap / web-search pipeline:     *)
(* startConversationMessage and continueConversationMessage with the       *)
(* helpers they call (isWebSearchEnabled, needsWebSearch,                  *)
(* rewriteQuestionForAgent, performWebSearch,                              *)
(* areSearchResultsRelevantToAgent, logRelevanceCheck,                     *)
(* filterAndFormatResults, logWebSearch, detectCannotAnswerResponse).      *)
(* Every await of the handler is one action; the outcome of the awaited    *)
(* network, completion or store call is chosen with \E.                    *)
(*                                                                         *)
(* Text is modelled as a sequence: a reply is a sequence of word tokens,   *)
(* a classifier line is a sequence of characters, the web context block is *)
(* the sequence of its [Source N] entries (the empty sequence is '').      *)
(*                                                                         *)
(* Spec and FairSpec follow one turn.  SearchSpec follows one call of      *)
(* performWebSearch with parseSearchResults, section by section, on sample *)
(* search pages; there a url is a sequence of tokens.                      *)
(* ClassifySpec follows one call of areSearchResultsRelevantToAgent on     *)
(* sample completion outputs, LogSpec the log writes of several turns at   *)
(* the same time, RewriteSpec repeated calls of rewriteQuestionForAgent    *)
(* against one completion stub, FormatSpec one call of                     *)
(* filterAndFormatResults with its page fetches, PageSpec one call of      *)
(* fetchAndSummarizeUrl, and PairSpec a startConversationMessage turn      *)
(* followed by a continueConversationMessage turn on the same outcomes.    *)
(***************************************************************************)
EXTENDS Integers, Sequences, FiniteSets, TLC

\* ---------------------------------------------------------------- bounds
MaxResults == 1      \* result blocks in a search response of a turn
MaxSections == 11    \* result sections of a search page followed on its own
MaxClassified == 2   \* results given to a classification followed on its own
MaxWriters == 2      \* turns that log at the same time
MaxRepeats == 2      \* calls of the rewriter with the same arguments
MaxFormatted == 4    \* results given to a formatting followed on its own

\* ------------------------------------------------------- program constants
ResultCap == 5           \* performWebSearch: results.slice(0, 5)
ParseCap == 10           \* parseSearchResults: results.length < 10
TopRelevant == 3         \* filterAndFormatResults: relevantResults.slice(0, 3)
TopGeneral == 2          \* filterAndFormatResults: results.slice(0, 2)
MinTextLength == 100     \* fetchAndSummarizeUrl: textContent.length < 100
TextCap == 5000          \* extractTextFromHtml: text.slice(0, 5000)

\* ------------------------------------------------------------- sequences
Take(s, n) == SubSeq(s, 1, IF n < Len(s) THEN n ELSE Len(s))

RECURSIVE SelectSeq2(_, _)
\* s.filter(Test) for a Test given as a set of accepted elements
SelectSeq2(s, ok) ==
  IF s = <<>> THEN <<>>
  ELSE IF Head(s) \in ok THEN <<Head(s)>> \o SelectSeq2(Tail(s), ok)
       ELSE SelectSeq2(Tail(s), ok)

\* hay.includes(needle) on sequences
Includes(hay, needle) ==
  \E i \in 1..(Len(hay) - Len(needle) + 1) :
     SubSeq(hay, i, i + Len(needle) - 1) = needle

\* ----------------------------------------------------------- feature gate
\* process.env['ENABLE_WEB_SEARCH']: not set, or one of these strings
EnvValues == {"unset", "true", "false"}

\* variant of isWebSearchEnabled in which the compiled-in default wins
isWebSearchEnabledLocalFirst(envValue, local) ==
  IF local THEN TRUE ELSE envValue = "true"

isWebSearchEnabled(envValue, local) ==
  IF envValue # "unset" THEN envValue = "true" ELSE local

\* ------------------------------------------------------ failure detection
\* A reply is the sequence of its whitespace-separated words.  The /i flag
\* is modelled by Lower; Armenian and Russian words are transliterated.
Lower(w) ==
  CASE w = "That" -> "that"
    [] w = "Outside" -> "outside"
    [] w = "I" -> "i"
    [] w = "Vne" -> "vne"
    [] OTHER -> w

\* words of the vocabulary that begin with the given regex fragment (a
\* pattern has no end anchor, so its last word matches as a prefix)
Competenc == {"competenc", "competence", "competence.", "competencies"}
Expertise == {"expertise", "expertise."}
Knowledge == {"knowledge", "knowledge."}
Scope == {"scope", "scope."}
Information == {"information", "information."}
Data == {"data", "data."}
Answer == {"answer", "answer."}
Help == {"help", "help."}
Provide == {"provide", "provided"}
Research == {"research", "research."}
Search == {"search", "search."}
Up == {"up", "up."}
\* words that end with the given fragment (no start anchor either)
Dont == {"don't", "dont"}
Cant == {"can't", "cant"}

\* cannotAnswerPatterns: each regex is a set of word-class sequences, one
\* per way of taking its alternatives and optional groups
cannotAnswerPatterns ==
  { <<{"outside"}, {"my"}, Competenc \cup Expertise \cup Knowledge \cup Scope>>,
    <<{"outside"}, {"of"}, {"my"}, Competenc \cup Expertise \cup Knowledge \cup Scope>>,
    <<{"beyond"}, {"my"}, Competenc \cup Expertise \cup Knowledge \cup Scope>>,
    <<{"beyond"}, {"of"}, {"my"}, Competenc \cup Expertise \cup Knowledge \cup Scope>>,
    <<Dont, {"have"}, Information \cup Knowledge \cup Data>>,
    <<Dont, {"have"}, {"enough"}, Information \cup Knowledge \cup Data>>,
    <<Cant, Answer \cup Help>>,
    <<Cant, {"provide"}, Information>>,
    <<{"unable"}, {"to"}, Answer \cup Help \cup Provide>>,
    <<{"not"}, {"qualified", "able", "equipped"}, {"to"}, Answer \cup Help>>,
    <<{"lack"}, {"the"}, Information \cup Knowledge \cup Expertise>>,
    <<{"need"}, {"more", "additional", "external"}, Information \cup Data \cup Knowledge>>,
    <<{"would"}, {"need"}, {"to"}, Research \cup Search>>,
    <<{"would"}, {"need"}, {"to"}, {"look"}, Up>>,
    \* Armenian
    <<{"durs"}, {"e"}, {"liazorutyunneri", "gitelikneri", "imatsutyan"}>>,
    <<{"durs"}, {"e"}, {"im"}, {"liazorutyunneri", "gitelikneri", "imatsutyan"}>>,
    <<{"chem"}, {"karogh"}, {"pataskhanel"}>>,
    <<{"bavarar"}, {"teghekutyunner"}, {"chunem"}>>,
    <<{"anhrazhesht"}, {"e"}, {"hetazotel", "voronel"}>>,
    \* Russian
    <<{"vne"}, {"moey", "moikh"}, {"kompetentsii", "znaniy"}>>,
    <<{"ne"}, {"mogu"}, {"otvetit"}>>,
    <<{"nedostatochno"}, {"informatsii"}>> }

\* variant of PatternTest for patterns without the /i flag
PatternTestCaseSensitive(pattern, response) ==
  \E i \in 1..(Len(response) - Len(pattern) + 1) :
     \A k \in 1..Len(pattern) : response[i + k - 1] \in pattern[k]

\* pattern.test(response) for one word-class sequence
PatternTest(pattern, response) ==
  \E i \in 1..(Len(response) - Len(pattern) + 1) :
     \A k \in 1..Len(pattern) : Lower(response[i + k - 1]) \in pattern[k]

detectCannotAnswerResponse(response) ==
  \E pattern \in cannotAnswerPatterns : PatternTest(pattern, response)

\* sample replies of the completion call (the test responses of
\* testFallbackDetection, shortened)
OrdinaryReply == <<"That", "is", "an", "interesting", "question!">>
OutsideReply == <<"this", "question", "is", "outside", "my", "competencies">>
ArmenianReply == <<"chem", "karogh", "pataskhanel", "ays", "hartsin">>
RussianReply == <<"Vne", "moey", "kompetentsii", "otvechat">>
InabilityReplies == {OutsideReply, ArmenianReply, RussianReply}
TurnReplies == {OrdinaryReply} \cup InabilityReplies
\* sample replies of the regeneration call
RetryReplies == {OrdinaryReply, OutsideReply}

\* ---------------------------------------------------- relevance decision
\* A classifier line is a sequence of characters.
DECISION == <<"D","E","C","I","S","I","O","N",":">>
RELEVANT == <<"R","E","L","E","V","A","N","T">>
NOT_RELEVANT == <<"N","O","T","_">> \o RELEVANT
REASONING == <<"R","E","A","S","O","N","I","N","G",":">>

\* the letters toUpperCase changes: <<lower case, upper case>>
Letters ==
  { <<"a","A">>, <<"b","B">>, <<"c","C">>, <<"d","D">>, <<"e","E">>, <<"f","F">>,
    <<"g","G">>, <<"h","H">>, <<"i","I">>, <<"j","J">>, <<"k","K">>, <<"l","L">>,
    <<"m","M">>, <<"n","N">>, <<"o","O">>, <<"p","P">>, <<"q","Q">>, <<"r","R">>,
    <<"s","S">>, <<"t","T">>, <<"u","U">>, <<"v","V">>, <<"w","W">>, <<"x","X">>,
    <<"y","Y">>, <<"z","Z">> }

toUpperCase(line) ==
  [i \in 1..Len(line) |->
     IF \E l \in Letters : l[1] = line[i]
     THEN (CHOOSE l \in Letters : l[1] = line[i])[2]
     ELSE line[i]]

startsWith(line, prefix) ==
  Len(line) >= Len(prefix) /\ SubSeq(line, 1, Len(prefix)) = prefix

\* lines.find(l => l.startsWith('DECISION:')): the first such line, or <<>>
\* with found = FALSE for undefined
RECURSIVE FindDecisionLine(_)
FindDecisionLine(lines) ==
  IF lines = <<>> THEN [found |-> FALSE, line |-> <<>>]
  ELSE IF startsWith(Head(lines), DECISION) THEN [found |-> TRUE, line |-> Head(lines)]
       ELSE FindDecisionLine(Tail(lines))

\* lines.find(l => l.startsWith('REASONING:'))
RECURSIVE FindReasoningLine(_)
FindReasoningLine(lines) ==
  IF lines = <<>> THEN [found |-> FALSE, line |-> <<>>]
  ELSE IF startsWith(Head(lines), REASONING) THEN [found |-> TRUE, line |-> Head(lines)]
       ELSE FindReasoningLine(Tail(lines))

\* String.prototype.trim on spaces
RECURSIVE trim(_)
trim(line) ==
  IF line = <<>> THEN <<>>
  ELSE IF Head(line) = " " THEN trim(Tail(line))
  ELSE IF line[Len(line)] = " " THEN trim(SubSeq(line, 1, Len(line) - 1))
  ELSE line

\* the reasoning texts the function itself supplies, each as one chunk
NoReasoningProvided == <<"No reasoning provided">>
ErrorReasoning == <<"Error during relevance check, defaulting to relevant">>

\* reasoningLine?.replace('REASONING:', '').trim() || 'No reasoning provided'
ParseReasoning(lines) ==
  LET r == FindReasoningLine(lines)
      text == IF r.found THEN trim(SubSeq(r.line, Len(REASONING) + 1, Len(r.line))) ELSE <<>>
  IN IF text = <<>> THEN NoReasoningProvided ELSE text

\* decisionLine?.toUpperCase().includes('RELEVANT') &&
\*   !decisionLine?.toUpperCase().includes('NOT_RELEVANT') || false
ParseIsRelevant(lines) ==
  LET d == FindDecisionLine(lines) IN
  /\ d.found
  /\ Includes(toUpperCase(d.line), RELEVANT)
  /\ ~Includes(toUpperCase(d.line), NOT_RELEVANT)

\* sample completion outputs of the classifier (content.trim().split('\n')):
\* RELEVANT without a reasoning line, NOT_RELEVANT with one, and an output
\* without a decision line
TurnClassifierOutputs ==
  { << DECISION \o <<" ">> \o RELEVANT >>,
    << DECISION \o <<" ">> \o NOT_RELEVANT,
       REASONING \o <<" ", "g", "e", "n", "e", "r", "a", "l", " ">> >>,
    << <<"O","K">>, REASONING \o <<"g", "e", "n", "e", "r", "a", "l">> >> }

\* ------------------------------------------------------------ retrieval
\* A search result: title, url and snippet are named by the rank id of the
\* block in the response; score is the number of identity/question keywords
\* its title and snippet contain (filterAndFormatResults, scoredResults).
SearchResult(i, sc) == [title |-> i, url |-> i, snippet |-> i, score |-> sc]

\* keyword score of the block of rank i in the sample responses of a turn
SampleScore(i) == IF i = 1 THEN 0 ELSE 1

\* the parsed responses of a turn: the blocks of rank 1..k, k up to n
ResultLists(n) ==
  { [i \in 1..k |-> SearchResult(i, SampleScore(i))] : k \in 0..n }

\* performWebSearch: [] on a rejected fetch or a non-success status, else
\* the parsed results cut to the first 5
performWebSearch(outcome, parsed) ==
  IF outcome = "ok" THEN Take(parsed, ResultCap) ELSE <<>>

\* ---------------------------------------------------------- summarization
\* outcome of fetching and condensing one result page: the fetch rejects or
\* times out, the status is not ok, response.text() rejects, the extracted
\* text is under 100 characters, the summarization call rejects, it answers
\* with an empty text, or it answers with a summary
PageOutcomes == {"rejected", "timed_out", "not_ok", "text_failed", "short",
                 "summary_failed", "empty_summary", "summarized"}

Null == [null |-> TRUE, kind |-> "null", of |-> 0]

\* summarizeContent: the completion's text, or on a failed completion call
\* the page text cut to 500 characters
summarizeContent(r, outcome) ==
  CASE outcome = "summarized" -> [null |-> FALSE, kind |-> "summary", of |-> r.url]
    [] outcome = "empty_summary" -> [null |-> FALSE, kind |-> "empty", of |-> r.url]
    [] OTHER -> [null |-> FALSE, kind |-> "truncated", of |-> r.url]

fetchAndSummarizeUrl(r, outcome) ==
  IF outcome \in {"rejected", "timed_out", "not_ok", "text_failed", "short"} THEN Null
  ELSE summarizeContent(r, outcome)

\* the snippet '' (parseSearchResults never returns it)
EmptySnippet == 0

\* variant of OrSnippet without the fallback
OrNothing(summary, r) ==
  IF summary.null \/ summary.kind = "empty"
  THEN [null |-> FALSE, kind |-> "snippet", of |-> EmptySnippet] ELSE summary

\* summary || result.snippet
OrSnippet(summary, r) ==
  IF summary.null \/ summary.kind = "empty"
  THEN [null |-> FALSE, kind |-> "snippet", of |-> r.snippet] ELSE summary

SummaryOrSnippet(r, outcome) == OrSnippet(fetchAndSummarizeUrl(r, outcome), r)

\* scoredResults.filter(sr => sr.score > 0).sort((a, b) => b.score - a.score)
\* (Array.prototype.sort is stable)
RECURSIVE InsertByScore(_, _)
InsertByScore(r, sorted) ==
  IF sorted = <<>> THEN <<r>>
  ELSE IF Head(sorted).score >= r.score
       THEN <<Head(sorted)>> \o InsertByScore(r, Tail(sorted))
       ELSE <<r>> \o sorted

RECURSIVE SortByScore(_)
SortByScore(rs) ==
  IF rs = <<>> THEN <<>>
  ELSE InsertByScore(rs[Len(rs)], SortByScore(SubSeq(rs, 1, Len(rs) - 1)))

RelevantResults(results) ==
  SortByScore(SelectSeq2(results, {r \in {results[i] : i \in DOMAIN results} : r.score > 0}))

FinalResults(results) ==
  IF Len(RelevantResults(results)) > 0
  THEN Take(RelevantResults(results), TopRelevant)
  ELSE Take(results, TopGeneral)

\* lines 391-401: the summarized results whose summary is not empty, each
\* as '[Source N] title / summary / (url)', N counting the kept ones
FormatResults(final, bodies) ==
  LET validResults == SelectSeq2([idx \in 1..Len(final) |->
                                    [title |-> final[idx].title,
                                     summary |-> bodies[idx],
                                     url |-> final[idx].url]],
                                 {[title |-> final[idx].title,
                                   summary |-> bodies[idx],
                                   url |-> final[idx].url] :
                                    idx \in {k \in 1..Len(final) :
                                              ~(bodies[k].kind = "snippet"
                                                /\ bodies[k].of = EmptySnippet)}})
  IN [idx \in 1..Len(validResults) |->
        [source |-> idx, title |-> validResults[idx].title,
         summary |-> validResults[idx].summary,
         url |-> validResults[idx].url]]

\* filterAndFormatResults: '' for no results, else one [Source N] entry per
\* selected result; pages gives the page outcome of each selected result
filterAndFormatResults(results, pages) ==
  IF Len(results) = 0 THEN <<>>
  ELSE LET final == FinalResults(results) IN
       FormatResults(final, [idx \in 1..Len(final) |-> SummaryOrSnippet(final[idx], pages[idx])])

\* ------------------------------------------------------------ turn state
VARIABLES
  variant,            \* "start": startConversationMessage, "continue": continueConversationMessage
  localDefault,       \* WEB_SEARCH_ENABLED_LOCAL of the build
  env,                \* process.env['ENABLE_WEB_SEARCH'], may change between awaits
  msg,                \* lastOtherPlayerMessage: "none", "empty" text or "text"
  pc,                 \* the await the handler is suspended at
  phase,              \* "proactive" or "fallback" block of the handler
  webSearchContext,   \* let webSearchContext = ''
  rewrittenQuestion,  \* "original" or "rewritten" question, "none" before
  searchResults,      \* const searchResults of the current attempt
  relevanceCheck,     \* const relevanceCheck of the current attempt
  content,            \* reply of the first chatCompletion
  result,             \* what the handler returned or that it threw
  webSearchLogs,      \* table webSearchLogs
  relevanceLogs,      \* relevance_logs.json
  steps,              \* history: pipeline steps taken so far
  attempts,           \* history: one record per performWebSearch call
  gateReads,          \* history: values isWebSearchEnabled() returned
  promptContext,      \* history: web context pushed into the first prompt
  retryContent,       \* const { content: retryContent } of the regeneration, <<>> before
  helperCalls         \* history: how each needsWebSearch / rewriteQuestionForAgent / previousMessages call ended

\* state of one performWebSearch call taken on its own
VARIABLES
  html,               \* the search page: how its fetch ends and its result sections
  searchPc,           \* position in performWebSearch / parseSearchResults
  sectionIndex,       \* loop variable i of parseSearchResults
  parsedResults,      \* const results of parseSearchResults
  searchReturn        \* what performWebSearch returned or that it threw

turnVars == <<variant, localDefault, env, msg, pc, phase, webSearchContext,
              rewrittenQuestion, searchResults, relevanceCheck, content, result,
              webSearchLogs, relevanceLogs, steps, attempts, gateReads, promptContext,
              retryContent, helperCalls>>

\* state of one areSearchResultsRelevantToAgent call taken on its own
VARIABLES
  classifyResults,    \* argument searchResults of the call
  completion,         \* how the chatCompletion of the call ends
  classifyReturn      \* what the call returned

\* state of the logs while several turns write to them
VARIABLES
  logFile,            \* relevance_logs.json: the entries in file order
  logTable,           \* table webSearchLogs: the documents in insertion order
  writers             \* per turn: where its log calls are and its local logs array

\* state of repeated rewriteQuestionForAgent calls taken on their own
VARIABLES
  rewriteArgs,        \* arguments question and agentName of the calls
  stub,               \* what chatCompletion does for the prompt of these arguments
  rewriteReturns      \* what the calls made so far returned, in call order

\* state of one filterAndFormatResults call taken on its own
VARIABLES
  formatResults,      \* argument results of the call, each with its keyword score
  summaries,          \* per selected result: how fetchAndSummarizeUrl ended and its value
  completed,          \* history: the selected results in the order their page calls ended
  formatReturn        \* what the call returned

\* state of one fetchAndSummarizeUrl call taken on its own
VARIABLES
  page,               \* the result page: how its fetch ends, the length of its cleaned text, how the summarization ends
  pagePc,             \* position in fetchAndSummarizeUrl
  textContent,        \* length of const textContent, -1 before it is set
  handed,             \* length of the content summarizeContent was called with, -1 when not called
  pageReturn          \* what fetchAndSummarizeUrl returned

\* the turn of the other entry point run on the same outcomes, for comparison
VARIABLES
  first               \* what the startConversationMessage turn did, once it has finished

searchVars == <<html, searchPc, sectionIndex, parsedResults, searchReturn>>
classifyVars == <<classifyResults, completion, classifyReturn>>

logVars == <<logFile, logTable, writers>>

rewriteVars == <<rewriteArgs, stub, rewriteReturns>>

formatVars == <<formatResults, summaries, completed, formatReturn>>

pageVars == <<page, pagePc, textContent, handed, pageReturn>>

pairVars == <<first>>

helperVars == <<searchVars, classifyVars, logVars, rewriteVars, formatVars, pageVars, pairVars>>

vars == <<turnVars, helperVars>>

NoRelevance == [isRelevant |-> FALSE, reasoning |-> <<>>]
NoResult == [status |-> "pending", marker |-> FALSE, text |-> <<>>, regenerated |-> FALSE]

NoReturn == [status |-> "pending", value |-> <<>>]
NoFirst == [taken |-> FALSE, steps |-> <<>>, webSearchLogs |-> <<>>, relevanceLogs |-> <<>>,
            result |-> NoResult, helperCalls |-> <<>>, attempts |-> <<>>, gateReads |-> <<>>,
            content |-> <<>>, retryContent |-> <<>>]
\* Each specification follows one thing and leaves everything else idle:
\* the turn is not running, no helper call is being followed on its own.
Idle(own) ==
  /\ IF own = "turn" THEN TRUE
     ELSE /\ variant = "start"
          /\ localDefault = FALSE
          /\ env = "unset"
          /\ msg = "none"
          /\ pc = "done"
          /\ phase = "proactive"
          /\ webSearchContext = <<>>
          /\ rewrittenQuestion = "none"
          /\ searchResults = <<>>
          /\ relevanceCheck = NoRelevance
          /\ content = <<>>
          /\ result = NoResult
          /\ webSearchLogs = <<>>
          /\ relevanceLogs = <<>>
          /\ steps = <<>>
          /\ attempts = <<>>
          /\ gateReads = <<>>
          /\ promptContext = <<>>
          /\ retryContent = <<>>
          /\ helperCalls = <<>>
  /\ IF own = "search" THEN TRUE
     ELSE /\ html = [fetch |-> "none", sections |-> <<>>]
          /\ searchPc = "idle"
          /\ sectionIndex = 0
          /\ parsedResults = <<>>
          /\ searchReturn = NoReturn
  /\ IF own = "classify" THEN TRUE
     ELSE /\ classifyResults = <<>>
          /\ completion = [failed |-> FALSE, lines |-> <<>>]
          /\ classifyReturn = NoReturn
  /\ IF own = "log" THEN TRUE
     ELSE /\ logFile = <<>>
          /\ logTable = <<>>
          /\ writers = <<>>
  /\ IF own = "rewrite" THEN TRUE
     ELSE /\ rewriteArgs = [question |-> <<>>, agentName |-> "none"]
          /\ stub = [failed |-> FALSE, content |-> <<>>]
          /\ rewriteReturns = <<>>
  /\ IF own = "format" THEN TRUE
     ELSE /\ formatResults = <<>>
          /\ summaries = <<>>
          /\ completed = <<>>
          /\ formatReturn = NoReturn
  /\ IF own = "page" THEN TRUE
     ELSE /\ page = [fetch |-> "none", length |-> 0, summary |-> "none"]
          /\ pagePc = "idle"
          /\ textContent = -1
          /\ handed = -1
          /\ pageReturn = NoReturn
  /\ IF own = "pair" THEN TRUE
     ELSE /\ first = NoFirst

Init ==
  /\ variant \in {"start", "continue"}
  /\ localDefault \in BOOLEAN
  /\ env \in EnvValues
  /\ msg \in {"none", "empty", "text"}
  /\ pc = "gate"
  /\ phase = "proactive"
  /\ webSearchContext = <<>>
  /\ rewrittenQuestion = "none"
  /\ searchResults = <<>>
  /\ relevanceCheck = NoRelevance
  /\ content = <<>>
  /\ result = NoResult
  /\ webSearchLogs = <<>>
  /\ relevanceLogs = <<>>
  /\ steps = <<"START">>
  /\ attempts = <<>>
  /\ gateReads = <<>>
  /\ promptContext = <<>>
  /\ retryContent = <<>>
  /\ helperCalls = <<>>
  /\ Idle("turn")

\* ------------------------------------------------- decisions of the handler
\* if (isWebSearchEnabled() && lastOtherPlayerMessage && lastOtherPlayerMessage.text)
ProactiveCondition(enabled, m) == enabled /\ m = "text"

\* variants of FallbackCondition: without the !webSearchContext conjunct, and
\* without the isWebSearchEnabled() conjunct
FallbackConditionIgnoresContext(enabled, ctx, reply) ==
  enabled /\ detectCannotAnswerResponse(reply)

FallbackConditionIgnoresGate(enabled, ctx, reply) ==
  ctx = <<>> /\ detectCannotAnswerResponse(reply)

\* if (isWebSearchEnabled() && !webSearchContext && detectCannotAnswerResponse(content))
FallbackCondition(enabled, ctx, reply) ==
  enabled /\ ctx = <<>> /\ detectCannotAnswerResponse(reply)

\* whether that condition gets as far as calling detectCannotAnswerResponse
DetectorCalled(enabled, ctx) == enabled /\ ctx = <<>>

\* if (lastOtherPlayerMessage && lastOtherPlayerMessage.text) inside the fallback try
FallbackHasQuestion(m) == m = "text"

\* content.trim().toUpperCase().includes('YES'), false when the call fails
NeedOutcomes == {"YES", "NO", "failed"}
\* variant of needsWebSearch that asks for a search when the call fails
needsWebSearchFailOpen(outcome) == outcome # "NO"

needsWebSearch(outcome) == outcome = "YES"

\* variant of rewriteQuestionForAgent that returns '' when the call fails
rewriteQuestionOrEmpty(outcome) == IF outcome = "ok" THEN "rewritten" ELSE "empty"

rewriteQuestionForAgent(outcome) == IF outcome = "ok" THEN "rewritten" ELSE "original"

\* variant of areSearchResultsRelevantToAgent whose catch returns the
\* reasoning of a reply without REASONING line
areSearchResultsRelevantQuietly(failed, lines) ==
  IF failed
  THEN [isRelevant |-> TRUE, reasoning |-> NoReasoningProvided]
  ELSE [isRelevant |-> ParseIsRelevant(lines), reasoning |-> ParseReasoning(lines)]

\* the parsed decision and reasoning of the completion, and when the call
\* fails { isRelevant: true, reasoning: 'Error during relevance check, ...' }
areSearchResultsRelevantToAgent(failed, lines) ==
  IF failed
  THEN [isRelevant |-> TRUE, reasoning |-> ErrorReasoning]
  ELSE [isRelevant |-> ParseIsRelevant(lines), reasoning |-> ParseReasoning(lines)]

\* variant of ProactiveSuccess without the relevance conjunct
ProactiveSuccessIgnoresRelevance(results, isRelevant, ctx) == Len(results) > 0

\* success of the proactive and of the fallback log entry
ProactiveSuccess(results, isRelevant, ctx) == Len(results) > 0 /\ isRelevant
FallbackSuccess(results, isRelevant, ctx) == Len(results) > 0 /\ isRelevant /\ ctx # <<>>

\* webSearchContext || undefined
OrUndefined(ctx) ==
  IF ctx = <<>> THEN [defined |-> FALSE, value |-> <<>>] ELSE [defined |-> TRUE, value |-> ctx]

\* variant of TriggerType: the fallback block logs with the proactive literal
TriggerTypeCopied(ph) == "proactive"

\* triggerType literal of the logWebSearch call of each block
TriggerType(ph) == IF ph = "fallback" THEN "fallback" ELSE "proactive"

\* the entry each block hands to logWebSearch; attempt is the index of the
\* performWebSearch call it belongs to (history)
WebSearchEntry(ph, results, isRelevant, ctx, att) ==
  [question |-> "text",
   searchResults |-> results,
   success |-> IF ph = "fallback" THEN FallbackSuccess(results, isRelevant, ctx)
               ELSE ProactiveSuccess(results, isRelevant, ctx),
   resultCount |-> Len(results),
   formattedContext |-> OrUndefined(ctx),
   triggerType |-> TriggerType(ph),
   attempt |-> att]

\* searchResults.map(r => ({title, url, snippet}))
StripResult(r) == [title |-> r.title, url |-> r.url, snippet |-> r.snippet]

RelevanceEntry(results, check, rewritten, att) ==
  [question |-> "text",
   searchResults |-> [i \in 1..Len(results) |-> StripResult(results[i])],
   decision |-> IF check.isRelevant THEN "RELEVANT" ELSE "NOT_RELEVANT",
   reasoning |-> check.reasoning,
   rewrittenQuestion |-> rewritten,
   attempt |-> att]

\* logWebSearch: ctx.runMutation(insertLog) inside try/catch
InsertOutcomes == {"ok", "failed"}
logWebSearch(logs, entry, outcome) ==
  IF outcome = "ok" THEN Append(logs, entry) ELSE logs

\* logRelevanceCheck on relevance_logs.json: read (starting fresh when the
\* read or the parse fails), push, write back; all inside try/catch
FileOutcomes == {"ok", "read_failed", "write_failed"}
logRelevanceCheck(logs, entry, outcome) ==
  CASE outcome = "ok" -> Append(logs, entry)
    [] outcome = "read_failed" -> <<entry>>
    [] outcome = "write_failed" -> logs

\* the closing returns of the handler: `[web_search] ${content}` when
\* webSearchContext is set, content otherwise
FinalReturn(ctx, reply) ==
  [status |-> "returned", marker |-> ctx # <<>>, text |-> reply, regenerated |-> FALSE]

\* return `[web_search] ${retryContent}`
RetryReturn(retry) ==
  [status |-> "returned", marker |-> TRUE, text |-> retry, regenerated |-> TRUE]

Threw == [status |-> "threw", marker |-> FALSE, text |-> <<>>, regenerated |-> FALSE]

\* ------------------------------------------------------------- the turn
Has(seq, x) == \E i \in DOMAIN seq : seq[i] = x
Count(seq, x) == Cardinality({i \in DOMAIN seq : seq[i] = x})
SetLast(seq, rec) == [seq EXCEPT ![Len(seq)] = rec]

\* variant of RegeneratePc in which continueConversationMessage, once the
\* fallback has a context, goes back to its first completion call
RegeneratePcRepeatsGenerate(v) == IF v = "continue" THEN "generate" ELSE "regenerate"

\* continueConversationMessage awaits previousMessages(...) while it builds
\* the messages of a completion call; startConversationMessage does not
GeneratePc(v) == IF v = "continue" THEN "history" ELSE "generate"
RegeneratePc(v) == IF v = "continue" THEN "rehistory" ELSE "regenerate"

\* line 404 / 718: the gate and the message are tested once, before the try
Gate ==
  /\ pc = "gate"
  /\ LET enabled == isWebSearchEnabled(env, localDefault) IN
     /\ gateReads' = Append(gateReads, enabled)
     /\ pc' = IF ProactiveCondition(enabled, msg) THEN "need" ELSE GeneratePc(variant)
  /\ UNCHANGED <<helperCalls, helperVars>>
  /\ UNCHANGED <<variant, localDefault, env, msg, phase, webSearchContext,
                 rewrittenQuestion, searchResults, relevanceCheck, content, result,
                 webSearchLogs, relevanceLogs, steps, attempts, promptContext, retryContent>>

\* variant of NeedCheck that goes on to the search whatever needsWebSearch said
NeedCheckSearchAnyway ==
  /\ pc = "need"
  /\ \E outcome \in NeedOutcomes :
       /\ helperCalls' = Append(helperCalls, <<"need", outcome>>)
       /\ steps' = steps \o <<"NEED_CHECK",
                              IF needsWebSearch(outcome) THEN "SEARCH_NEEDED" ELSE "NO_SEARCH">>
       /\ pc' = "rewrite"
  /\ UNCHANGED helperVars
  /\ UNCHANGED <<variant, localDefault, env, msg, phase, webSearchContext,
                 rewrittenQuestion, searchResults, relevanceCheck, content, result,
                 webSearchLogs, relevanceLogs, attempts, gateReads, promptContext, retryContent>>

\* variant of NeedCheck that asks again, once, when the call fails
NeedCheckAsksAgain ==
  /\ pc = "need"
  /\ \E outcome \in NeedOutcomes :
       /\ helperCalls' = Append(helperCalls, <<"need", outcome>>)
       /\ IF needsWebSearch(outcome)
          THEN /\ steps' = steps \o <<"NEED_CHECK", "SEARCH_NEEDED">>
               /\ pc' = "rewrite"
          ELSE /\ steps' = steps \o <<"NEED_CHECK", "NO_SEARCH">>
               /\ pc' = IF outcome = "failed" /\ helperCalls = <<>>
                        THEN "need" ELSE GeneratePc(variant)
  /\ UNCHANGED helperVars
  /\ UNCHANGED <<variant, localDefault, env, msg, phase, webSearchContext,
                 rewrittenQuestion, searchResults, relevanceCheck, content, result,
                 webSearchLogs, relevanceLogs, attempts, gateReads, promptContext, retryContent>>

\* line 413 / 727: const shouldSearch = await needsWebSearch(...)
NeedCheck ==
  /\ pc = "need"
  /\ \E outcome \in NeedOutcomes :
       /\ helperCalls' = Append(helperCalls, <<"need", outcome>>)
       /\ IF needsWebSearch(outcome)
          THEN /\ steps' = steps \o <<"NEED_CHECK", "SEARCH_NEEDED">>
               /\ pc' = "rewrite"
          ELSE /\ steps' = steps \o <<"NEED_CHECK", "NO_SEARCH">>
               /\ pc' = GeneratePc(variant)
  /\ UNCHANGED helperVars
  /\ UNCHANGED <<variant, localDefault, env, msg, phase, webSearchContext,
                 rewrittenQuestion, searchResults, relevanceCheck, content, result,
                 webSearchLogs, relevanceLogs, attempts, gateReads, promptContext, retryContent>>

\* line 423 / 556 / 737 / 878: await rewriteQuestionForAgent(...)
Rewrite ==
  /\ pc = "rewrite"
  /\ \E outcome \in {"ok", "failed"} :
       /\ rewrittenQuestion' = rewriteQuestionForAgent(outcome)
       /\ helperCalls' = Append(helperCalls, <<"rewrite", outcome>>)
  /\ steps' = Append(steps, "REWRITE")
  /\ pc' = "search"
  /\ UNCHANGED helperVars
  /\ UNCHANGED <<variant, localDefault, env, msg, phase, webSearchContext,
                 searchResults, relevanceCheck, content, result,
                 webSearchLogs, relevanceLogs, attempts, gateReads, promptContext, retryContent>>

\* line 429 / 562 / 743 / 884: await performWebSearch(rewrittenQuestion)
Retrieve ==
  /\ pc = "search"
  /\ \E outcome \in {"rejected", "not_ok", "ok"}, parsed \in ResultLists(MaxResults) :
       LET results == performWebSearch(outcome, parsed) IN
       /\ searchResults' = results
       /\ attempts' = Append(attempts,
            [afterMatch |-> Has(steps, "FAILED"), afterGenerate |-> Has(steps, "GENERATE"),
             query |-> rewrittenQuestion, results |-> results,
             classified |-> <<>>,
             decision |-> "pending", failedCheck |-> FALSE,
             summarized |-> FALSE, context |-> <<>>,
             relevanceLogged |-> "no", webLogged |-> "no"])
  /\ steps' = Append(steps, "RETRIEVE")
  /\ pc' = "classify"
  /\ UNCHANGED <<helperCalls, helperVars>>
  /\ UNCHANGED <<variant, localDefault, env, msg, phase, webSearchContext,
                 rewrittenQuestion, relevanceCheck, content, result,
                 webSearchLogs, relevanceLogs, gateReads, promptContext, retryContent>>

\* variant of Classify that hands the classifier an empty list instead of
\* the list retrieval returned
ClassifyWithoutResults ==
  /\ pc = "classify"
  /\ \E failed \in BOOLEAN, lines \in TurnClassifierOutputs :
       LET check == areSearchResultsRelevantToAgent(failed, lines) IN
       /\ relevanceCheck' = check
       /\ steps' = steps \o <<"CLASSIFY", IF check.isRelevant THEN "RELEVANT" ELSE "NOT_RELEVANT">>
       /\ attempts' = SetLast(attempts,
            [attempts[Len(attempts)] EXCEPT
               !.decision = IF check.isRelevant THEN "RELEVANT" ELSE "NOT_RELEVANT",
               !.failedCheck = failed,
               !.classified = <<>>])
  /\ pc' = "logrel"
  /\ UNCHANGED <<helperCalls, helperVars>>
  /\ UNCHANGED <<variant, localDefault, env, msg, phase, webSearchContext,
                 rewrittenQuestion, searchResults, content, result,
                 webSearchLogs, relevanceLogs, gateReads, promptContext, retryContent>>

\* line 433 / 566 / 747 / 888: await areSearchResultsRelevantToAgent(...)
Classify ==
  /\ pc = "classify"
  /\ \E failed \in BOOLEAN, lines \in TurnClassifierOutputs :
       LET check == areSearchResultsRelevantToAgent(failed, lines) IN
       /\ relevanceCheck' = check
       /\ steps' = steps \o <<"CLASSIFY", IF check.isRelevant THEN "RELEVANT" ELSE "NOT_RELEVANT">>
       /\ attempts' = SetLast(attempts,
            [attempts[Len(attempts)] EXCEPT
               !.decision = IF check.isRelevant THEN "RELEVANT" ELSE "NOT_RELEVANT",
               !.failedCheck = failed,
               !.classified = searchResults])
  /\ pc' = "logrel"
  /\ UNCHANGED <<helperCalls, helperVars>>
  /\ UNCHANGED <<variant, localDefault, env, msg, phase, webSearchContext,
                 rewrittenQuestion, searchResults, content, result,
                 webSearchLogs, relevanceLogs, gateReads, promptContext, retryContent>>

\* variant of LogRelevance without the branch on relevanceCheck.isRelevant:
\* the results are summarized whatever the decision
LogRelevanceThenSummarize ==
  /\ pc = "logrel"
  /\ \E outcome \in FileOutcomes :
       /\ outcome = "read_failed" => relevanceLogs # <<>>
       /\ relevanceLogs' = logRelevanceCheck(relevanceLogs,
             RelevanceEntry(searchResults, relevanceCheck, rewrittenQuestion, Len(attempts)),
             outcome)
       /\ attempts' = SetLast(attempts,
            [attempts[Len(attempts)] EXCEPT !.relevanceLogged = outcome])
  /\ pc' = "summarize"
  /\ UNCHANGED <<helperCalls, helperVars>>
  /\ UNCHANGED <<variant, localDefault, env, msg, phase, webSearchContext,
                 rewrittenQuestion, searchResults, relevanceCheck, content, result,
                 webSearchLogs, steps, gateReads, promptContext, retryContent>>

\* line 441 / 574 / 755 / 896: await logRelevanceCheck({...}), then the
\* branch on relevanceCheck.isRelevant up to its next await
LogRelevance ==
  /\ pc = "logrel"
  /\ \E outcome \in FileOutcomes :
       /\ outcome = "read_failed" => relevanceLogs # <<>>   \* fs.existsSync(logFilePath)
       /\ relevanceLogs' = logRelevanceCheck(relevanceLogs,
             RelevanceEntry(searchResults, relevanceCheck, rewrittenQuestion, Len(attempts)),
             outcome)
       /\ attempts' = SetLast(attempts,
            [attempts[Len(attempts)] EXCEPT !.relevanceLogged = outcome])
  /\ IF relevanceCheck.isRelevant
     THEN /\ pc' = "summarize"
          /\ UNCHANGED webSearchContext
     ELSE /\ pc' = "logweb"
          /\ webSearchContext' = <<>>
  /\ UNCHANGED <<helperCalls, helperVars>>
  /\ UNCHANGED <<variant, localDefault, env, msg, phase,
                 rewrittenQuestion, searchResults, relevanceCheck, content, result,
                 webSearchLogs, steps, gateReads, promptContext, retryContent>>

\* line 459 / 592 / 773 / 914: webSearchContext = await filterAndFormatResults(...)
Summarize ==
  /\ pc = "summarize"
  /\ \E pages \in [1..Len(FinalResults(searchResults)) -> PageOutcomes] :
       LET ctx == filterAndFormatResults(searchResults, pages) IN
       /\ webSearchContext' = ctx
       /\ attempts' = SetLast(attempts,
            [attempts[Len(attempts)] EXCEPT !.summarized = TRUE, !.context = ctx])
  /\ steps' = Append(steps, "SUMMARIZE")
  /\ pc' = "logweb"
  /\ UNCHANGED <<helperCalls, helperVars>>
  /\ UNCHANGED <<variant, localDefault, env, msg, phase,
                 rewrittenQuestion, searchResults, relevanceCheck, content, result,
                 webSearchLogs, relevanceLogs, gateReads, promptContext, retryContent>>

\* variant of LogWeb in which a failing insert leaves logWebSearch as an
\* exception that ends the handler
LogWebUncaught ==
  /\ pc = "logweb"
  /\ \E outcome \in InsertOutcomes :
       /\ webSearchLogs' = logWebSearch(webSearchLogs,
             WebSearchEntry(phase, searchResults, relevanceCheck.isRelevant,
                            webSearchContext, Len(attempts)),
             outcome)
       /\ attempts' = SetLast(attempts,
            [attempts[Len(attempts)] EXCEPT !.webLogged = outcome])
       /\ IF outcome = "failed"
          THEN /\ pc' = "done"
               /\ result' = Threw
               /\ steps' = Append(steps, "DONE")
          ELSE IF phase = "proactive"
          THEN /\ pc' = GeneratePc(variant)
               /\ UNCHANGED <<result, steps>>
          ELSE IF webSearchContext # <<>>
               THEN /\ pc' = RegeneratePc(variant)
                    /\ UNCHANGED <<result, steps>>
               ELSE /\ pc' = "done"
                    /\ result' = FinalReturn(webSearchContext, content)
                    /\ steps' = Append(steps, "DONE")
  /\ UNCHANGED <<helperCalls, helperVars>>
  /\ UNCHANGED <<variant, localDefault, env, msg, phase, webSearchContext,
                 rewrittenQuestion, searchResults, relevanceCheck, content,
                 relevanceLogs, gateReads, promptContext, retryContent>>

\* variant of LogWeb that writes no entry for a retrieval without results
LogWebSkipsEmpty ==
  /\ pc = "logweb"
  /\ \E outcome \in InsertOutcomes :
       IF Len(searchResults) = 0
       THEN UNCHANGED <<webSearchLogs, attempts>>
       ELSE /\ webSearchLogs' = logWebSearch(webSearchLogs,
                  WebSearchEntry(phase, searchResults, relevanceCheck.isRelevant,
                                 webSearchContext, Len(attempts)),
                  outcome)
            /\ attempts' = SetLast(attempts,
                 [attempts[Len(attempts)] EXCEPT !.webLogged = outcome])
  /\ IF phase = "proactive"
     THEN /\ pc' = GeneratePc(variant)
          /\ UNCHANGED <<result, steps>>
     ELSE IF webSearchContext # <<>>
          THEN /\ pc' = RegeneratePc(variant)
               /\ UNCHANGED <<result, steps>>
          ELSE /\ pc' = "done"
               /\ result' = FinalReturn(webSearchContext, content)
               /\ steps' = Append(steps, "DONE")
  /\ UNCHANGED <<helperCalls, helperVars>>
  /\ UNCHANGED <<variant, localDefault, env, msg, phase, webSearchContext,
                 rewrittenQuestion, searchResults, relevanceCheck, content,
                 relevanceLogs, gateReads, promptContext, retryContent>>

\* line 476 / 603 / 790 / 925: await logWebSearch(ctx, {...}); the proactive
\* block then falls through to the prompt, the fallback block regenerates
\* when it has a context and otherwise reaches the closing returns
LogWeb ==
  /\ pc = "logweb"
  /\ \E outcome \in InsertOutcomes :
       /\ webSearchLogs' = logWebSearch(webSearchLogs,
             WebSearchEntry(phase, searchResults, relevanceCheck.isRelevant,
                            webSearchContext, Len(attempts)),
             outcome)
       /\ attempts' = SetLast(attempts,
            [attempts[Len(attempts)] EXCEPT !.webLogged = outcome])
  /\ IF phase = "proactive"
     THEN /\ pc' = GeneratePc(variant)
          /\ UNCHANGED <<result, steps>>
     ELSE IF webSearchContext # <<>>
          THEN /\ pc' = RegeneratePc(variant)
               /\ UNCHANGED <<result, steps>>
          ELSE /\ pc' = "done"
               /\ result' = FinalReturn(webSearchContext, content)
               /\ steps' = Append(steps, "DONE")
  /\ UNCHANGED <<helperCalls, helperVars>>
  /\ UNCHANGED <<variant, localDefault, env, msg, phase, webSearchContext,
                 rewrittenQuestion, searchResults, relevanceCheck, content,
                 relevanceLogs, gateReads, promptContext, retryContent>>

\* line 850 (continue only): await previousMessages(...) for the first
\* prompt, outside every try: a failing query ends the turn with an error
History ==
  /\ pc = "history"
  /\ \E ok \in BOOLEAN :
       /\ helperCalls' = Append(helperCalls, <<"history", IF ok THEN "ok" ELSE "failed">>)
       /\ IF ok THEN /\ pc' = "generate"
                     /\ UNCHANGED <<result, steps>>
          ELSE /\ pc' = "done"
               /\ result' = Threw
               /\ steps' = steps \o <<"GENERATE", "DONE">>
  /\ UNCHANGED helperVars
  /\ UNCHANGED <<variant, localDefault, env, msg, phase, webSearchContext,
                 rewrittenQuestion, searchResults, relevanceCheck, content,
                 webSearchLogs, relevanceLogs, attempts, gateReads, promptContext, retryContent>>

\* line 533 / 860: const { content } = await chatCompletion(...), outside
\* every try, followed by the fallback condition of line 545 / 867 and, when
\* it does not start a cycle, by the closing returns
Generate ==
  /\ pc = "generate"
  /\ \E ok \in BOOLEAN, reply \in TurnReplies :
       IF ~ok
       THEN /\ pc' = "done"
            /\ result' = Threw
            /\ steps' = steps \o <<"GENERATE", "DONE">>
            /\ UNCHANGED <<content, phase, gateReads, promptContext>>
       ELSE LET enabled == isWebSearchEnabled(env, localDefault)
                checked == IF DetectorCalled(enabled, webSearchContext)
                           THEN <<"CHECK_FAILURE",
                                  IF detectCannotAnswerResponse(reply) THEN "FAILED" ELSE "OK">>
                           ELSE <<>>
            IN
            /\ content' = reply
            /\ promptContext' = webSearchContext
            /\ gateReads' = Append(gateReads, enabled)
            /\ IF FallbackCondition(enabled, webSearchContext, reply) /\ FallbackHasQuestion(msg)
               THEN /\ phase' = "fallback"
                    /\ pc' = "rewrite"
                    /\ steps' = steps \o <<"GENERATE">> \o checked
                    /\ UNCHANGED result
               ELSE /\ pc' = "done"
                    /\ result' = FinalReturn(webSearchContext, reply)
                    /\ steps' = steps \o <<"GENERATE">> \o checked \o <<"DONE">>
                    /\ UNCHANGED phase
  /\ UNCHANGED <<helperCalls, helperVars>>
  /\ UNCHANGED <<variant, localDefault, env, msg, webSearchContext,
                 rewrittenQuestion, searchResults, relevanceCheck,
                 webSearchLogs, relevanceLogs, attempts, retryContent>>

\* line 960 (continue only): await previousMessages(...) for the retry
\* prompt, inside the fallback try: a failing query is caught and the
\* handler goes on to its closing returns
ReHistory ==
  /\ pc = "rehistory"
  /\ \E ok \in BOOLEAN :
       /\ helperCalls' = Append(helperCalls, <<"history", IF ok THEN "ok" ELSE "failed">>)
       /\ IF ok THEN /\ pc' = "regenerate"
                     /\ UNCHANGED <<result, steps>>
          ELSE /\ pc' = "done"
               /\ result' = FinalReturn(webSearchContext, content)
               /\ steps' = steps \o <<"REGENERATE", "DONE">>
  /\ UNCHANGED helperVars
  /\ UNCHANGED <<variant, localDefault, env, msg, phase, webSearchContext,
                 rewrittenQuestion, searchResults, relevanceCheck, content,
                 webSearchLogs, relevanceLogs, attempts, gateReads, promptContext, retryContent>>

\* variant of Regenerate outside the try: a failing call ends the turn with
\* an error
RegenerateUncaught ==
  /\ pc = "regenerate"
  /\ \E ok \in BOOLEAN, retry \in RetryReplies :
       /\ retryContent' = IF ok THEN retry ELSE <<>>
       /\ result' = IF ok THEN RetryReturn(retry) ELSE Threw
       /\ steps' = steps \o <<"REGENERATE", "DONE">>
  /\ pc' = "done"
  /\ UNCHANGED <<helperCalls, helperVars>>
  /\ UNCHANGED <<variant, localDefault, env, msg, phase, webSearchContext,
                 rewrittenQuestion, searchResults, relevanceCheck, content,
                 webSearchLogs, relevanceLogs, attempts, gateReads, promptContext>>

\* variant of Regenerate that runs the failure check on the regenerated reply
\* and starts another cycle when it matches
RegenerateRecheck ==
  /\ pc = "regenerate"
  /\ \E ok \in BOOLEAN, retry \in RetryReplies :
       /\ retryContent' = IF ok THEN retry ELSE <<>>
       /\ IF ok /\ detectCannotAnswerResponse(retry)
          THEN /\ pc' = "rewrite"
               /\ steps' = steps \o <<"REGENERATE", "CHECK_FAILURE", "FAILED">>
               /\ UNCHANGED result
          ELSE /\ pc' = "done"
               /\ result' = IF ok THEN RetryReturn(retry)
                            ELSE FinalReturn(webSearchContext, content)
               /\ steps' = steps \o <<"REGENERATE", "DONE">>
  /\ UNCHANGED <<helperCalls, helperVars>>
  /\ UNCHANGED <<variant, localDefault, env, msg, phase, webSearchContext,
                 rewrittenQuestion, searchResults, relevanceCheck, content,
                 webSearchLogs, relevanceLogs, attempts, gateReads, promptContext>>

\* variant of Regenerate that discards the regenerated reply and goes on to
\* the closing returns with the first reply
RegenerateKeepsOriginal ==
  /\ pc = "regenerate"
  /\ \E ok \in BOOLEAN, retry \in RetryReplies :
       /\ retryContent' = IF ok THEN retry ELSE <<>>
       /\ result' = FinalReturn(webSearchContext, content)
       /\ steps' = steps \o <<"REGENERATE", "DONE">>
  /\ pc' = "done"
  /\ UNCHANGED <<helperCalls, helperVars>>
  /\ UNCHANGED <<variant, localDefault, env, msg, phase, webSearchContext,
                 rewrittenQuestion, searchResults, relevanceCheck, content,
                 webSearchLogs, relevanceLogs, attempts, gateReads, promptContext>>

\* line 635 / 970: const { content: retryContent } = await chatCompletion(...)
\* inside the fallback try, then return `[web_search] ${retryContent}`; a
\* failing call is caught and the handler goes on to its closing returns
Regenerate ==
  /\ pc = "regenerate"
  /\ \E ok \in BOOLEAN, retry \in RetryReplies :
       /\ retryContent' = IF ok THEN retry ELSE <<>>
       /\ result' = IF ok THEN RetryReturn(retry)
                    ELSE FinalReturn(webSearchContext, content)
       /\ steps' = steps \o <<"REGENERATE", "DONE">>
  /\ pc' = "done"
  /\ UNCHANGED <<helperCalls, helperVars>>
  /\ UNCHANGED <<variant, localDefault, env, msg, phase, webSearchContext,
                 rewrittenQuestion, searchResults, relevanceCheck, content,
                 webSearchLogs, relevanceLogs, attempts, gateReads, promptContext>>

\* the deployment's ENABLE_WEB_SEARCH is changed while the turn is suspended.
\* The handler reads it at line 404 / 718 and again at line 545 / 867 only,
\* so a change is followed when the next step of the handler is one of
\* these reads; a change at any other moment has the effect of one there.
EnvChange ==
  /\ pc \in {"gate", "generate"}
  /\ \E e \in EnvValues \ {env} : env' = e
  /\ UNCHANGED <<helperCalls, helperVars>>
  /\ UNCHANGED <<variant, localDefault, msg, pc, phase, webSearchContext,
                 rewrittenQuestion, searchResults, relevanceCheck, content, result,
                 webSearchLogs, relevanceLogs, steps, attempts, gateReads, promptContext, retryContent>>

TurnStep ==
  \/ Gate \/ NeedCheck \/ Rewrite \/ Retrieve \/ Classify \/ LogRelevance
  \/ Summarize \/ LogWeb \/ History \/ Generate \/ ReHistory \/ Regenerate

Next == TurnStep \/ EnvChange

Spec == Init /\ [][Next]_vars

\* every awaited call eventually returns or fails
FairSpec == Spec /\ WF_vars(TurnStep)

\* ------------------------------------------- performWebSearch on its own
\* A url is a sequence of tokens; a result section of the page is a record:
\* whether it has a result__a link, the href of that link, the cleaned title
\* and the cleaned snippet ("" when neither snippet pattern matches).
Section(hasLink, href, title, snippet) ==
  [link |-> hasLink, href |-> href, title |-> title, snippet |-> snippet]

Https == <<"https://", "host", "/path">>
Http == <<"http://", "host">>
Redirect(target) == <<"//duckduckgo.com/l/?", "uddg=">> \o target \o <<"&", "rut=1">>

\* sample sections of a search page
WellFormedSections ==
  { Section(TRUE, Https, "title", "snippet"),
    Section(TRUE, Redirect(<<"https%3A%2F%2F", "host", "%2Fpath">>), "title", "snippet") }

SampleSections ==
  WellFormedSections \cup
  { Section(TRUE, Http, "title", ""),
    Section(TRUE, Redirect(<<"http%3A%2F%2F", "host">>), "title", "snippet"),
    Section(TRUE, Redirect(<<"ftp%3A%2F%2F", "host">>), "title", "snippet"),
    Section(TRUE, Redirect(<<"javascript%3A", "alert(1)">>), "title", "snippet"),
    Section(TRUE, Redirect(<<"%E0%A4%A", "host">>), "title", "snippet"),
    Section(TRUE, <<"//duckduckgo.com/l/?", "uddg=", "&", "rut=1">>, "title", "snippet"),
    Section(TRUE, <<"https://", "host", "/?", "x=1", "&", "uddg=", "ftp%3A%2F%2F", "host">>,
            "title", "snippet"),
    Section(TRUE, <<"ftp://", "host">>, "title", "snippet"),
    Section(TRUE, <<"/l/?", "kh=-1">>, "title", "snippet"),
    Section(TRUE, Https, "", "snippet"),
    Section(FALSE, <<>>, "", "") }

\* the sample pages: n sections of one well-formed kind, one of them
\* replaced by another sample section
SamplePages(n) ==
  { [j \in 1..len |-> IF j = at THEN other ELSE good] :
      len \in 0..n, at \in 1..n, good \in WellFormedSections, other \in SampleSections }

\* how the fetch of the page ends: fetch rejects, the status is not ok,
\* response.text() rejects, or the body arrives
FetchOutcomes == {"rejected", "not_ok", "text_failed", "ok"}

\* decodeURIComponent on one token; "malformed" stands for the URIError
decodeToken(t) ==
  CASE t = "https%3A%2F%2F" -> "https://"
    [] t = "http%3A%2F%2F" -> "http://"
    [] t = "ftp%3A%2F%2F" -> "ftp://"
    [] t = "javascript%3A" -> "javascript:"
    [] t = "%2Fpath" -> "/path"
    [] t = "%E0%A4%A" -> "malformed"
    [] OTHER -> t

decodeURIComponent(u) == [k \in 1..Len(u) |-> decodeToken(u[k])]
DecodeThrows(u) == \E k \in 1..Len(u) : decodeToken(u[k]) = "malformed"

\* url.match(/uddg=([^&]+)/): the tokens after the first 'uddg=' that is
\* followed by something else than '&', up to the next '&'
UddgStarts(u) == {k \in 1..(Len(u) - 1) : u[k] = "uddg=" /\ u[k + 1] # "&"}
RECURSIVE UpToAmp(_)
UpToAmp(u) ==
  IF u = <<>> \/ Head(u) = "&" THEN <<>> ELSE <<Head(u)>> \o UpToAmp(Tail(u))
uddgMatch(u) ==
  IF UddgStarts(u) = {} THEN [found |-> FALSE, group |-> <<>>]
  ELSE LET k == CHOOSE x \in UddgStarts(u) : \A y \in UddgStarts(u) : x <= y
       IN [found |-> TRUE, group |-> UpToAmp(SubSeq(u, k + 1, Len(u)))]

\* variant of IsHttpUrl that lets every url through
AnyUrl(u) == TRUE

\* url.startsWith('http://') || url.startsWith('https://')
IsHttpUrl(u) == u # <<>> /\ u[1] \in {"http://", "https://"}

\* the url of a section after the redirect decoding of lines 116-126
DecodedUrl(sec) ==
  IF (\E k \in 1..Len(sec.href) : sec.href[k] = "uddg=") /\ uddgMatch(sec.href).found
  THEN decodeURIComponent(uddgMatch(sec.href).group)
  ELSE sec.href

\* one iteration of the loop of parseSearchResults: the result the section
\* adds, or that it is skipped
ParseSectionResult(sec) ==
  IF ~sec.link THEN [kept |-> FALSE, result |-> <<>>]
  ELSE IF (\E k \in 1..Len(sec.href) : sec.href[k] = "uddg=")
          /\ uddgMatch(sec.href).found /\ DecodeThrows(uddgMatch(sec.href).group)
       THEN [kept |-> FALSE, result |-> <<>>]
  ELSE IF ~IsHttpUrl(DecodedUrl(sec)) THEN [kept |-> FALSE, result |-> <<>>]
  ELSE IF sec.title = "" \/ DecodedUrl(sec) = <<>> THEN [kept |-> FALSE, result |-> <<>>]
  ELSE [kept |-> TRUE,
        result |-> [title |-> sec.title,
                    snippet |-> IF sec.snippet = "" THEN "No description available"
                                ELSE sec.snippet,
                    url |-> DecodedUrl(sec)]]

SearchInit ==
  /\ Idle("search")
  /\ \E outcome \in FetchOutcomes, sections \in SamplePages(MaxSections) :
       html = [fetch |-> outcome,
               sections |-> IF outcome = "ok" THEN sections ELSE <<>>]
  /\ searchPc = "fetch"
  /\ sectionIndex = 0
  /\ parsedResults = <<>>
  /\ searchReturn = NoReturn

\* variant of SearchFetch without the try: a rejected fetch leaves
\* performWebSearch as an exception
SearchFetchUncaught ==
  /\ searchPc = "fetch"
  /\ IF html.fetch = "rejected"
     THEN /\ searchPc' = "returned"
          /\ searchReturn' = [status |-> "threw", value |-> <<>>]
     ELSE IF html.fetch = "not_ok"
     THEN /\ searchPc' = "returned"
          /\ searchReturn' = [status |-> "returned", value |-> <<>>]
     ELSE /\ searchPc' = "text"
          /\ UNCHANGED searchReturn
  /\ UNCHANGED <<html, sectionIndex, parsedResults>>
  /\ UNCHANGED <<turnVars, classifyVars, logVars, rewriteVars, formatVars, pageVars, pairVars>>

\* lines 32-50: await fetch(searchUrl, ...); a rejection is caught and
\* returns [], a status that is not ok returns []
SearchFetch ==
  /\ searchPc = "fetch"
  /\ IF html.fetch \in {"rejected", "not_ok"}
     THEN /\ searchPc' = "returned"
          /\ searchReturn' = [status |-> "returned", value |-> <<>>]
     ELSE /\ searchPc' = "text"
          /\ UNCHANGED searchReturn
  /\ UNCHANGED <<html, sectionIndex, parsedResults>>
  /\ UNCHANGED <<turnVars, classifyVars, logVars, rewriteVars, formatVars, pageVars, pairVars>>

\* line 52: await response.text(); a rejection is caught and returns [];
\* then parseSearchResults starts with i = 1 and no results
SearchReadBody ==
  /\ searchPc = "text"
  /\ IF html.fetch = "text_failed"
     THEN /\ searchPc' = "returned"
          /\ searchReturn' = [status |-> "returned", value |-> <<>>]
          /\ UNCHANGED sectionIndex
     ELSE /\ searchPc' = "parse"
          /\ sectionIndex' = 1
          /\ UNCHANGED searchReturn
  /\ UNCHANGED <<html, parsedResults>>
  /\ UNCHANGED <<turnVars, classifyVars, logVars, rewriteVars, formatVars, pageVars, pairVars>>

\* a parsed result, with the rank of the result block it was parsed from
Stamp(r, rank) == [title |-> r.title, snippet |-> r.snippet, url |-> r.url, block |-> rank]

\* variant of ParseSection that puts each new result in front of the others
ParseSectionPrepend ==
  /\ searchPc = "parse"
  /\ sectionIndex <= Len(html.sections)
  /\ Len(parsedResults) < ParseCap
  /\ LET r == ParseSectionResult(html.sections[sectionIndex]) IN
     parsedResults' = IF r.kept THEN <<Stamp(r.result, sectionIndex)>> \o parsedResults
                      ELSE parsedResults
  /\ sectionIndex' = sectionIndex + 1
  /\ UNCHANGED <<html, searchPc, searchReturn>>
  /\ UNCHANGED <<turnVars, classifyVars, logVars, rewriteVars, formatVars, pageVars, pairVars>>

\* variant of ParseSection in which a section that adds no result ends the
\* loop
ParseSectionStopsAtMalformed ==
  /\ searchPc = "parse"
  /\ sectionIndex <= Len(html.sections)
  /\ Len(parsedResults) < ParseCap
  /\ LET r == ParseSectionResult(html.sections[sectionIndex]) IN
     /\ parsedResults' = IF r.kept THEN Append(parsedResults, Stamp(r.result, sectionIndex))
                         ELSE parsedResults
     /\ sectionIndex' = IF r.kept THEN sectionIndex + 1 ELSE Len(html.sections) + 1
  /\ UNCHANGED <<html, searchPc, searchReturn>>
  /\ UNCHANGED <<turnVars, classifyVars, logVars, rewriteVars, formatVars, pageVars, pairVars>>

\* lines 104-187: one iteration of
\* for (let i = 1; i < resultSections.length && results.length < 10; i++)
\* (resultSections[0] is the text before the first section)
ParseSection ==
  /\ searchPc = "parse"
  /\ sectionIndex <= Len(html.sections)
  /\ Len(parsedResults) < ParseCap
  /\ LET r == ParseSectionResult(html.sections[sectionIndex]) IN
     parsedResults' = IF r.kept THEN Append(parsedResults, Stamp(r.result, sectionIndex))
                      ELSE parsedResults
  /\ sectionIndex' = sectionIndex + 1
  /\ UNCHANGED <<html, searchPc, searchReturn>>
  /\ UNCHANGED <<turnVars, classifyVars, logVars, rewriteVars, formatVars, pageVars, pairVars>>

\* variant of SearchReturn without the slice
SearchReturnUncut ==
  /\ searchPc = "parse"
  /\ ~(sectionIndex <= Len(html.sections) /\ Len(parsedResults) < ParseCap)
  /\ searchPc' = "returned"
  /\ searchReturn' = [status |-> "returned", value |-> parsedResults]
  /\ UNCHANGED <<html, sectionIndex, parsedResults>>
  /\ UNCHANGED <<turnVars, classifyVars, logVars, rewriteVars, formatVars, pageVars, pairVars>>

\* lines 190-191 and 62-73: the loop ends, parseSearchResults returns
\* results and performWebSearch returns results.slice(0, 5)
SearchReturn ==
  /\ searchPc = "parse"
  /\ ~(sectionIndex <= Len(html.sections) /\ Len(parsedResults) < ParseCap)
  /\ searchPc' = "returned"
  /\ searchReturn' = [status |-> "returned", value |-> Take(parsedResults, ResultCap)]
  /\ UNCHANGED <<html, sectionIndex, parsedResults>>
  /\ UNCHANGED <<turnVars, classifyVars, logVars, rewriteVars, formatVars, pageVars, pairVars>>

SearchSpec ==
  SearchInit /\ [][SearchFetch \/ SearchReadBody \/ ParseSection \/ SearchReturn]_vars

\* ------------------------ areSearchResultsRelevantToAgent on its own
\* The text of a title or a snippet: it contains agentName or it does not.
NamesAgent == "names the agent"

\* the argument searchResults: up to n results of either kind of text
ClassifiedLists(n) ==
  UNION { [1..k -> [title : {NamesAgent, "general"},
                    snippet : {NamesAgent, "general"}, url : {"url"}]] : k \in 0..n }

\* The chatCompletion call rejects or resolves with an output, given as
\* content.trim().split('\n') cuts it. After 'DECISION:' the output may have
\* either token, a variant of it, or nothing; the decision line may start as
\* the format asks, without the space, with the arrow of the prompt's
\* examples, or in another case; a reasoning line may precede or follow it.
Completions ==
  LET tokens == {RELEVANT, NOT_RELEVANT,
                 <<"N","O","T"," ">> \o RELEVANT, <<"I","R">> \o RELEVANT,
                 <<"r","e","l","e","v","a","n","t">>,
                 <<"n","o","t","_","r","e","l","e","v","a","n","t">>,
                 <<"U","N","S","U","R","E">>, <<>>}
      prefixes == {DECISION \o <<" ">>, DECISION, <<">", " ">> \o DECISION \o <<" ">>,
                   <<"D","e","c","i","s","i","o","n",":"," ">>}
      reasoning == REASONING \o <<" ","g","e","n","e","r","a","l">>
      outputs == UNION { { <<p \o t>>, <<p \o t, reasoning>>, <<reasoning, p \o t>> } :
                         p \in prefixes, t \in tokens }
  IN {[failed |-> TRUE, lines |-> <<>>]} \cup
     {[failed |-> FALSE, lines |-> o] : o \in outputs}

ClassifyInit ==
  /\ Idle("classify")
  /\ classifyResults \in ClassifiedLists(MaxClassified)
  /\ completion \in Completions
  /\ classifyReturn = NoReturn

\* lines 161-228: the results only go into the prompt; the value returned is
\* parsed from the completion, or the fail-open value when the call rejects
ClassifyCall ==
  /\ classifyReturn.status = "pending"
  /\ classifyReturn' =
       [status |-> "returned",
        value |-> areSearchResultsRelevantToAgent(completion.failed, completion.lines)]
  /\ UNCHANGED <<classifyResults, completion>>
  /\ UNCHANGED <<turnVars, searchVars, logVars, rewriteVars, formatVars, pageVars, pairVars>>

ClassifySpec == ClassifyInit /\ [][ClassifyCall]_vars

\* ------------------------------------- the logs under several writers
\* Each writer is a turn that logs one attempt: logRelevanceCheck, then
\* logWebSearch. Turns run as separate actions, possibly in separate
\* processes, so the read and the write of relevance_logs.json of one turn
\* may be separated by the steps of another. The entry of writer w is w.
Writers == 1..MaxWriters

LogInit ==
  /\ Idle("log")
  /\ logFile = <<>>
  /\ logTable = <<>>
  /\ writers = [w \in Writers |->
                  [pc |-> "read", logs |-> <<>>, fileLogged |-> FALSE, dbLogged |-> FALSE]]

\* part_003 lines 40-48: logs = JSON.parse(readFileSync(...)) when the file
\* exists; when the read or the parse fails, logs = [] ('starting fresh')
FileRead(w) ==
  /\ writers[w].pc = "read"
  /\ \E outcome \in {"ok", "read_failed"} :
       /\ outcome = "read_failed" => logFile # <<>>
       /\ writers' = [writers EXCEPT ![w].pc = "write",
                        ![w].logs = IF outcome = "ok" THEN logFile ELSE <<>>]
  /\ UNCHANGED <<logFile, logTable>>
  /\ UNCHANGED <<turnVars, searchVars, classifyVars, rewriteVars, formatVars, pageVars, pairVars>>

\* part_003 lines 51-54: logs.push(entry); writeFileSync(JSON.stringify(logs));
\* a failing write is caught by the outer try and leaves the file as it is
FileWrite(w) ==
  /\ writers[w].pc = "write"
  /\ \E outcome \in {"ok", "write_failed"} :
       /\ logFile' = IF outcome = "ok" THEN Append(writers[w].logs, w) ELSE logFile
       /\ writers' = [writers EXCEPT ![w].pc = "insert",
                        ![w].fileLogged = (outcome = "ok")]
  /\ UNCHANGED logTable
  /\ UNCHANGED <<turnVars, searchVars, classifyVars, rewriteVars, formatVars, pageVars, pairVars>>

\* webSearchLogger.ts lines 34-53 and 78: ctx.db.insert in one mutation; a
\* failing mutation is caught and inserts nothing
DbInsert(w) ==
  /\ writers[w].pc = "insert"
  /\ \E outcome \in InsertOutcomes :
       /\ logTable' = logWebSearch(logTable, w, outcome)
       /\ writers' = [writers EXCEPT ![w].pc = "done",
                        ![w].dbLogged = (outcome = "ok")]
  /\ UNCHANGED logFile
  /\ UNCHANGED <<turnVars, searchVars, classifyVars, rewriteVars, formatVars, pageVars, pairVars>>

LogSpec ==
  LogInit /\ [][\E w \in Writers : FileRead(w) \/ FileWrite(w) \/ DbInsert(w)]_vars

\* ------------------------------------ rewriteQuestionForAgent on its own
\* A question and a completion are sequences of tokens: words, spaces and
\* quote characters.
\* sample questions: two that name a third party, one that names nobody
Questions ==
  { <<"What", "does", "the", "president", "think">>,
    <<"What", "does", "Nikol", "think">>,
    <<"What", "is", "your", "stance">> }
AgentNames == {"Ruben", "Nikol"}

\* what the completion may answer for a question: the question with context
\* added, the same in quotes or padded with spaces, the question with a word
\* replaced by the agent's name, a query of its own, or nothing
StubContents(question, agentName) ==
  { <<"Armenia">> \o question,
    <<"\"">> \o question \o <<"\"">>,
    <<" ", "'">> \o question \o <<" ">>,
    [i \in DOMAIN question |->
       IF question[i] \in {"president", "Nikol"} THEN agentName ELSE question[i]],
    <<"Armenia", "parliament", "news">>,
    <<"'", agentName, "Armenia", "'", " ">>,
    <<>> }

\* content.trim().replace(/^["']|["']$/g, ''): one quote off each end
Rewritten(text) ==
  LET t == trim(text)
      a == IF t # <<>> /\ Head(t) \in {"\"", "'"} THEN Tail(t) ELSE t
  IN IF a # <<>> /\ a[Len(a)] \in {"\"", "'"} THEN SubSeq(a, 1, Len(a) - 1) ELSE a

\* lines 292-347: the rewritten completion, or the question when the
\* completion call rejects
RewriteReturn(question, answer) ==
  IF answer.failed THEN question ELSE Rewritten(answer.content)

RewriteInit ==
  /\ Idle("rewrite")
  /\ rewriteArgs \in [question : Questions, agentName : AgentNames]
  /\ stub \in {[failed |-> TRUE, content |-> <<>>]} \cup
              {[failed |-> FALSE, content |-> c] :
                 c \in UNION {StubContents(q, n) : q \in Questions, n \in AgentNames}}
  /\ ~stub.failed => stub.content \in StubContents(rewriteArgs.question, rewriteArgs.agentName)
  /\ rewriteReturns = <<>>

\* variant of RewriteCall that remembers the previous call: a repeated call
\* is answered with the question itself
RewriteCallStateful ==
  /\ Len(rewriteReturns) < MaxRepeats
  /\ rewriteReturns' = Append(rewriteReturns,
       IF rewriteReturns # <<>> THEN rewriteArgs.question
       ELSE RewriteReturn(rewriteArgs.question, stub))
  /\ UNCHANGED <<rewriteArgs, stub>>
  /\ UNCHANGED <<turnVars, searchVars, classifyVars, logVars, formatVars, pageVars, pairVars>>

\* one call of rewriteQuestionForAgent(question, agentIdentity, agentName):
\* the function reads its arguments and the completion only
RewriteCall ==
  /\ Len(rewriteReturns) < MaxRepeats
  /\ rewriteReturns' = Append(rewriteReturns, RewriteReturn(rewriteArgs.question, stub))
  /\ UNCHANGED <<rewriteArgs, stub>>
  /\ UNCHANGED <<turnVars, searchVars, classifyVars, logVars, formatVars, pageVars, pairVars>>

RewriteSpec == RewriteInit /\ [][RewriteCall]_vars

\* the argument results: up to n results of performWebSearch, in rank order,
\* with any scores
ScoredLists(n) ==
  UNION { {[i \in 1..k |-> SearchResult(i, sc[i])] : sc \in [1..k -> {0, 1, 2}]} : k \in 0..n }

FormatInit ==
  /\ Idle("format")
  /\ formatResults \in ScoredLists(MaxFormatted)
  /\ summaries = [idx \in 1..Len(FinalResults(formatResults)) |->
                    [outcome |-> "pending", value |-> Null]]
  /\ completed = <<>>
  /\ formatReturn = NoReturn

\* variant of FetchPage that keeps the values of the page calls in the order
\* the calls end instead of the order of the selected results
FetchPageAsCompleted(idx) ==
  /\ formatReturn.status = "pending"
  /\ summaries[idx].outcome = "pending"
  /\ \E outcome \in PageOutcomes :
       LET slot == Len(completed) + 1
           value == fetchAndSummarizeUrl(FinalResults(formatResults)[idx], outcome)
       IN summaries' =
            IF slot = idx
            THEN [summaries EXCEPT ![idx] = [outcome |-> outcome, value |-> value]]
            ELSE [summaries EXCEPT ![idx] = [outcome |-> outcome, value |-> summaries[slot].value],
                                   ![slot] = [outcome |-> summaries[slot].outcome, value |-> value]]
  /\ completed' = Append(completed, idx)
  /\ UNCHANGED <<formatResults, formatReturn>>
  /\ UNCHANGED <<turnVars, searchVars, classifyVars, logVars, rewriteVars, pageVars, pairVars>>

\* lines 379-388: Promise.all over finalResults; the fetchAndSummarizeUrl
\* calls end in any order, each in one of the page outcomes
FetchPage(idx) ==
  /\ formatReturn.status = "pending"
  /\ summaries[idx].outcome = "pending"
  /\ \E outcome \in PageOutcomes :
       summaries' = [summaries EXCEPT ![idx] =
         [outcome |-> outcome,
          value |-> fetchAndSummarizeUrl(FinalResults(formatResults)[idx], outcome)]]
  /\ completed' = Append(completed, idx)
  /\ UNCHANGED <<formatResults, formatReturn>>
  /\ UNCHANGED <<turnVars, searchVars, classifyVars, logVars, rewriteVars, pageVars, pairVars>>

\* lines 327-330, 371-374 and 385-413: '' for no results; else, once every
\* page call has ended, the summaries fall back to the snippets and the
\* entries are formatted
FormatReturn ==
  /\ formatReturn.status = "pending"
  /\ \A idx \in DOMAIN summaries : summaries[idx].outcome # "pending"
  /\ LET final == FinalResults(formatResults) IN
     formatReturn' =
       [status |-> "returned",
        value |-> IF Len(formatResults) = 0 THEN <<>>
                  ELSE FormatResults(final,
                         [idx \in 1..Len(final) |-> OrSnippet(summaries[idx].value, final[idx])])]
  /\ UNCHANGED <<formatResults, summaries, completed>>
  /\ UNCHANGED <<turnVars, searchVars, classifyVars, logVars, rewriteVars, pageVars, pairVars>>

FormatSpec ==
  FormatInit /\ [][(\E idx \in DOMAIN summaries : FetchPage(idx)) \/ FormatReturn]_vars

\* --------------------------------------- fetchAndSummarizeUrl on its own
\* The page is given by the length of its text after extractTextFromHtml has
\* removed scripts, styles, tags and entities and collapsed the whitespace.
SampleLengths == {0, MinTextLength - 1, MinTextLength, MinTextLength + 1,
                  TextCap - 1, TextCap, TextCap + 1, 4 * TextCap}

\* variant of extractTextFromHtml without the slice
extractTextUncut(cleaned) == cleaned

\* line 286: text.slice(0, 5000)
extractTextFromHtml(cleaned) == IF cleaned < TextCap THEN cleaned ELSE TextCap

PageInit ==
  /\ Idle("page")
  /\ page \in [fetch : {"rejected", "timed_out", "not_ok", "text_failed", "ok"},
               length : SampleLengths,
               summary : {"summary_failed", "empty_summary", "summarized"}]
  /\ pagePc = "fetch"
  /\ textContent = -1
  /\ handed = -1
  /\ pageReturn = NoReturn

\* lines 210-223 and 253-261: await fetch(url, ...) with the 5 s timeout; a
\* rejection or a timeout is caught and returns null, so does a status that
\* is not ok
PageFetch ==
  /\ pagePc = "fetch"
  /\ IF page.fetch \in {"rejected", "timed_out", "not_ok"}
     THEN /\ pagePc' = "returned"
          /\ pageReturn' = [status |-> "returned", value |-> Null]
     ELSE /\ pagePc' = "text"
          /\ UNCHANGED pageReturn
  /\ UNCHANGED <<page, textContent, handed>>
  /\ UNCHANGED <<turnVars, searchVars, classifyVars, logVars, rewriteVars, formatVars, pairVars>>

\* lines 227-237: await response.text() (a rejection returns null), then
\* textContent = extractTextFromHtml(html); null when it is empty or under
\* 100 characters
PageReadBody ==
  /\ pagePc = "text"
  /\ IF page.fetch = "text_failed"
     THEN /\ pagePc' = "returned"
          /\ pageReturn' = [status |-> "returned", value |-> Null]
          /\ UNCHANGED textContent
     ELSE /\ textContent' = extractTextFromHtml(page.length)
          /\ IF textContent' = 0 \/ textContent' < MinTextLength
             THEN /\ pagePc' = "returned"
                  /\ pageReturn' = [status |-> "returned", value |-> Null]
             ELSE /\ pagePc' = "summarize"
                  /\ UNCHANGED pageReturn
  /\ UNCHANGED <<page, handed>>
  /\ UNCHANGED <<turnVars, searchVars, classifyVars, logVars, rewriteVars, formatVars, pairVars>>

\* lines 243-252: await summarizeContent(textContent, userQuestion); its
\* value is returned
PageSummarize ==
  /\ pagePc = "summarize"
  /\ handed' = textContent
  /\ pagePc' = "returned"
  /\ pageReturn' = [status |-> "returned",
                    value |-> summarizeContent([url |-> "url"], page.summary)]
  /\ UNCHANGED <<page, textContent>>
  /\ UNCHANGED <<turnVars, searchVars, classifyVars, logVars, rewriteVars, formatVars, pairVars>>

PageSpec == PageInit /\ [][PageFetch \/ PageReadBody \/ PageSummarize]_vars

\* ------------------------------------------------ the two entry points
\* A startConversationMessage turn runs to its end; then a
\* continueConversationMessage turn runs on the same message, with every
\* call it shares with the first turn ending as it ended there.
Min(a, b) == IF a < b THEN a ELSE b

HistoryFailed(calls) == \E k \in 1..Len(calls) : calls[k] = <<"history", "failed">>

\* the continue turn so far has seen the outcomes the start turn saw: the
\* k-th gate read, need check and rewrite, the retrieval, classification,
\* summarization and log writes of the k-th attempt, the generation and the
\* regeneration ended the same way in both turns, as far as both made them
SameOutcomes ==
  first.taken =>
    LET callsOf(seq, kind) == SelectSeq(seq, LAMBDA c : c[1] = kind)
        agree(a, b) == \A k \in 1..Min(Len(a), Len(b)) : a[k] = b[k]
    IN
    /\ agree(gateReads, first.gateReads)
    /\ agree(callsOf(helperCalls, "need"), callsOf(first.helperCalls, "need"))
    /\ agree(callsOf(helperCalls, "rewrite"), callsOf(first.helperCalls, "rewrite"))
    /\ \A i \in 1..Min(Len(attempts), Len(first.attempts)) :
         LET a == attempts[i]
             f == first.attempts[i]
         IN
         /\ a.results = f.results
         /\ (a.decision # "pending" /\ f.decision # "pending")
               => a.decision = f.decision /\ a.failedCheck = f.failedCheck
         /\ (a.relevanceLogged # "no" /\ f.relevanceLogged # "no")
               => a.relevanceLogged = f.relevanceLogged
         /\ (a.summarized /\ f.summarized) => a.context = f.context
         /\ (a.webLogged # "no" /\ f.webLogged # "no") => a.webLogged = f.webLogged
    /\ (content # <<>> /\ first.content # <<>>) => content = first.content
    /\ ~(content # <<>> /\ first.content = <<>> /\ first.result.status = "threw")
    /\ ~(result.status = "threw" /\ ~HistoryFailed(helperCalls) /\ first.content # <<>>)
    /\ (Has(steps, "REGENERATE") /\ ~HistoryFailed(helperCalls)
          /\ Has(first.steps, "REGENERATE") /\ ~HistoryFailed(first.helperCalls))
         => retryContent = first.retryContent

\* (the local default is fixed at false; the override gives both gate
\* values)
PairInit == Init /\ variant = "start" /\ localDefault = FALSE

\* the start turn has returned: keep what it did and begin the continue turn
\* on the same message
Restart ==
  /\ pc = "done"
  /\ variant = "start"
  /\ ~first.taken
  /\ first' = [taken |-> TRUE, steps |-> steps, webSearchLogs |-> webSearchLogs,
               relevanceLogs |-> relevanceLogs, result |-> result,
               helperCalls |-> helperCalls, attempts |-> attempts, gateReads |-> gateReads,
               content |-> content, retryContent |-> retryContent]
  /\ variant' = "continue"
  /\ env' \in EnvValues
  /\ pc' = "gate"
  /\ phase' = "proactive"
  /\ webSearchContext' = <<>>
  /\ rewrittenQuestion' = "none"
  /\ searchResults' = <<>>
  /\ relevanceCheck' = NoRelevance
  /\ content' = <<>>
  /\ result' = NoResult
  /\ webSearchLogs' = <<>>
  /\ relevanceLogs' = <<>>
  /\ steps' = <<"START">>
  /\ attempts' = <<>>
  /\ gateReads' = <<>>
  /\ promptContext' = <<>>
  /\ retryContent' = <<>>
  /\ helperCalls' = <<>>
  /\ UNCHANGED <<localDefault, msg>>
  /\ UNCHANGED <<searchVars, classifyVars, logVars, rewriteVars, formatVars, pageVars>>

PairSpec == PairInit /\ [][(Next /\ SameOutcomes') \/ Restart]_vars

\* =================================================================== claims
FallbackAttempts == {i \in DOMAIN attempts : attempts[i].afterGenerate}

\* C1: in one invocation the fallback cycle runs at most once: at most one
\* retrieval happens after the first generation, the failure detector is
\* consulted at most once, and nothing but the return follows the
\* regeneration, also when the regenerated reply matches a failure pattern.
C1_FallbackAtMostOnce ==
  /\ Cardinality(FallbackAttempts) <= 1
  /\ Count(steps, "CHECK_FAILURE") <= 1
  /\ Count(steps, "REGENERATE") <= 1
  /\ \A i \in DOMAIN steps :
       steps[i] = "REGENERATE" => \A j \in DOMAIN steps : j > i => steps[j] = "DONE"

\* the turn returned a regenerated reply that again matches a failure pattern
C1_Witness ==
  /\ pc = "done"
  /\ result.regenerated
  /\ detectCannotAnswerResponse(result.text)
  /\ Cardinality(FallbackAttempts) = 1

CodeEdges ==
  { <<"START", "NEED_CHECK">>, <<"START", "GENERATE">>,
    <<"NEED_CHECK", "NO_SEARCH">>, <<"NEED_CHECK", "SEARCH_NEEDED">>,
    <<"NO_SEARCH", "GENERATE">>, <<"SEARCH_NEEDED", "REWRITE">>,
    <<"REWRITE", "RETRIEVE">>, <<"RETRIEVE", "CLASSIFY">>,
    <<"CLASSIFY", "RELEVANT">>, <<"CLASSIFY", "NOT_RELEVANT">>,
    <<"RELEVANT", "SUMMARIZE">>,
    <<"SUMMARIZE", "GENERATE">>, <<"NOT_RELEVANT", "GENERATE">>,
    <<"GENERATE", "CHECK_FAILURE">>, <<"GENERATE", "DONE">>,
    <<"CHECK_FAILURE", "OK">>, <<"CHECK_FAILURE", "FAILED">>,
    <<"OK", "DONE">>, <<"FAILED", "DONE">>, <<"FAILED", "REWRITE">>,
    <<"SUMMARIZE", "REGENERATE">>, <<"SUMMARIZE", "DONE">>,
    <<"NOT_RELEVANT", "DONE">>, <<"REGENERATE", "DONE">> }

C4_TerminatesBounded ==
  /\ <>(pc = "done")
  /\ [](/\ Count(steps, "NEED_CHECK") <= 1
        /\ Count(steps, "GENERATE") <= 1
        /\ Count(steps, "REGENERATE") <= 1
        /\ Count(steps, "REWRITE") <= 2
        /\ Count(steps, "RETRIEVE") <= 2
        /\ Count(steps, "CLASSIFY") <= 2
        /\ Count(steps, "SUMMARIZE") <= 2)

\* a finished turn that ran every retrieval step twice
C4_Witness ==
  /\ pc = "done"
  /\ Count(steps, "NEED_CHECK") = 1
  /\ Count(steps, "REWRITE") = 2
  /\ Count(steps, "RETRIEVE") = 2
  /\ Count(steps, "CLASSIFY") = 2
  /\ Count(steps, "SUMMARIZE") = 2

\* C5: once the first generation has produced a reply, no failure of the
\* need assessment, rewrite, search, page fetch, classification,
\* summarization, regeneration or logging aborts the turn: it returns the
\* regenerated reply or the text of the first reply.
C5_TurnNeverAborts ==
  (pc = "done" /\ content # <<>>) =>
     /\ result.status = "returned"
     /\ result.regenerated \/ result.text = content

\* a turn whose rewrite, search, classification, both log writes and
\* regeneration failed, and which still returned the first reply
C5_Witness ==
  /\ pc = "done"
  /\ result.status = "returned"
  /\ result.text = content
  /\ Len(attempts) = 2
  /\ attempts[1].query = "original"
  /\ attempts[1].results = <<>>
  /\ attempts[1].failedCheck
  /\ attempts[1].relevanceLogged = "write_failed"
  /\ attempts[1].webLogged = "failed"
  /\ attempts[2].context # <<>>
  /\ Has(steps, "REGENERATE")

WebEntriesOf(i) == {k \in DOMAIN webSearchLogs : webSearchLogs[k].attempt = i}
RelevanceRecordsOf(i) == {k \in DOMAIN relevanceLogs : relevanceLogs[k].attempt = i}

\* C6 (as stated): when the turn has ended, every retrieval attempt has
\* exactly one WebSearchLogEntry in webSearchLogs.
C6_OneEntryPerAttempt ==
  pc = "done" =>
     \A i \in DOMAIN attempts :
        attempts[i].decision # "pending" => Cardinality(WebEntriesOf(i)) = 1

\* C6 (amended): every retrieval attempt makes exactly one logWebSearch
\* call; the attempt has exactly one WebSearchLogEntry when the insert of
\* that call succeeded and none when it failed (logWebSearch swallows the
\* failure), and never two.
C6_OneLogCallPerAttempt ==
  pc = "done" =>
     \A i \in DOMAIN attempts :
        attempts[i].decision # "pending" =>
           /\ attempts[i].webLogged \in InsertOutcomes
           /\ Cardinality(WebEntriesOf(i)) = IF attempts[i].webLogged = "ok" THEN 1 ELSE 0

\* a turn with a proactive retrieval without results and a fallback
\* retrieval with results, both logged
C6_Witness ==
  /\ pc = "done"
  /\ Len(attempts) = 2
  /\ attempts[1].results = <<>>
  /\ attempts[2].results # <<>>
  /\ Cardinality(WebEntriesOf(1)) = 1
  /\ Cardinality(WebEntriesOf(2)) = 1

\* C7: when the turn has ended, every classification attempt has exactly
\* one RelevanceDecision record in the relevance log.
C7_OneRecordPerClassification ==
  pc = "done" =>
     \A i \in DOMAIN attempts :
        attempts[i].decision # "pending" => Cardinality(RelevanceRecordsOf(i)) = 1

\* C8: in every WebSearchLogEntry, formattedContext is populated if and only
\* if the relevance decision of the same attempt was RELEVANT and its
\* summarization produced a non-empty context block, which is then the value.
C8_FormattedContextIff ==
  \A k \in DOMAIN webSearchLogs :
     LET e == webSearchLogs[k]
         a == attempts[e.attempt]
     IN /\ e.formattedContext.defined <=>
             (a.decision = "RELEVANT" /\ a.summarized /\ a.context # <<>>)
        /\ e.formattedContext.defined => e.formattedContext.value = a.context

\* entries with and without formattedContext: a RELEVANT proactive attempt
\* whose summarization produced nothing, then a fallback attempt with a context
C8_Witness ==
  /\ Len(webSearchLogs) = 2
  /\ attempts[1].decision = "RELEVANT"
  /\ attempts[1].summarized
  /\ ~webSearchLogs[1].formattedContext.defined
  /\ webSearchLogs[2].formattedContext.defined

\* C9: a WebSearchLogEntry has triggerType 'fallback' if and only if its
\* retrieval was started after the failure detector matched the generated
\* reply; an entry of a retrieval started before the first generation has
\* triggerType 'proactive'.
C9_TriggerType ==
  \A k \in DOMAIN webSearchLogs :
     LET e == webSearchLogs[k]
         a == attempts[e.attempt]
     IN /\ e.triggerType = "fallback" <=> a.afterMatch
        /\ ~a.afterGenerate => e.triggerType = "proactive"

\* one proactive and one fallback entry in the same turn
C9_Witness ==
  /\ Len(webSearchLogs) = 2
  /\ webSearchLogs[1].triggerType = "proactive"
  /\ webSearchLogs[2].triggerType = "fallback"

FallbackStarted == phase = "fallback"

\* C10 (as stated): a fallback cycle is started exactly when the generated
\* reply matches a failure pattern and no web context was used to generate it.
C10_FallbackExactlyWhen ==
  content # <<>> =>
     (FallbackStarted <=> (detectCannotAnswerResponse(content) /\ promptContext = <<>>))

\* C10 (amended): a fallback cycle is started exactly when web search is
\* enabled at the time of the failure check, the other player's last
\* message has non-empty text, the generated reply matches a failure pattern
\* and no web context was used to generate it.
C10_FallbackExactlyWhenEnabled ==
  content # <<>> =>
     (FallbackStarted <=>
        /\ gateReads[Len(gateReads)]
        /\ msg = "text"
        /\ detectCannotAnswerResponse(content)
        /\ promptContext = <<>>)

\* a reply generated with web context that matches a failure pattern: no
\* fallback cycle
C10_Witness ==
  /\ pc = "done"
  /\ promptContext # <<>>
  /\ detectCannotAnswerResponse(content)
  /\ ~FallbackStarted
  /\ gateReads[Len(gateReads)]

\* C11: filterAndFormatResults, with its page fetches, runs for a retrieval
\* attempt only if the relevance decision of that attempt is RELEVANT; after
\* a NOT_RELEVANT decision the attempt fetches no page and builds no context.
C11_SummarizeOnlyIfRelevant ==
  /\ \A i \in DOMAIN attempts :
        /\ attempts[i].summarized => attempts[i].decision = "RELEVANT"
        /\ attempts[i].decision = "NOT_RELEVANT" =>
              ~attempts[i].summarized /\ attempts[i].context = <<>>
  /\ \A i \in DOMAIN steps :
        /\ steps[i] = "SUMMARIZE" => (i > 1 /\ steps[i - 1] = "RELEVANT")
        /\ (steps[i] = "NOT_RELEVANT" /\ i < Len(steps)) => steps[i + 1] # "SUMMARIZE"
  /\ (pc \in {"logweb", "done"} /\ attempts # <<>>
        /\ attempts[Len(attempts)].decision = "NOT_RELEVANT") => webSearchContext = <<>>

\* a finished turn whose proactive results were judged NOT_RELEVANT and left
\* alone, and whose fallback results were judged RELEVANT and summarized
C11_Witness ==
  /\ pc = "done"
  /\ Len(attempts) = 2
  /\ attempts[1].results # <<>>
  /\ attempts[1].decision = "NOT_RELEVANT"
  /\ ~attempts[1].summarized
  /\ attempts[2].decision = "RELEVANT"
  /\ attempts[2].summarized

\* the web context block in the prompt the returned reply text was generated
\* from: the retry prompt for a regenerated reply, the first prompt otherwise
ReturnedTextContext == IF result.regenerated THEN webSearchContext ELSE promptContext

\* C12: the returned reply carries the '[web_search]' marker if and only if
\* the returned reply text was generated from a prompt that contained a
\* non-empty web context block.
C12_MarkerIffGeneratedWithContext ==
  (pc = "done" /\ result.status = "returned") =>
     (result.marker <=> ReturnedTextContext # <<>>)

\* the fallback cycle of the turn obtained a non-empty context block
FallbackObtainedContext ==
  \E i \in FallbackAttempts : attempts[i].context # <<>>

\* C13 (as stated): whenever the fallback cycle obtains a non-empty context
\* block, the reply returned by the turn is the regenerated reply, never the
\* original reply that matched the failure pattern.
C13_RegeneratedReplaces ==
  (pc = "done" /\ FallbackObtainedContext) =>
     /\ result.regenerated
     /\ result.text = retryContent

\* C13 (amended): whenever the fallback cycle obtains a non-empty context
\* block the regeneration is attempted; the turn returns the regenerated
\* reply when the regeneration call returned one, and the text of the
\* original reply when the regeneration failed.
C13_RegeneratedReplacesUnlessFailed ==
  (pc = "done" /\ FallbackObtainedContext) =>
     /\ Has(steps, "REGENERATE")
     /\ IF retryContent # <<>>
        THEN result = RetryReturn(retryContent)
        ELSE /\ result.status = "returned"
             /\ ~result.regenerated
             /\ result.text = content

\* the fallback cycle obtained a context and the turn returned a regenerated
\* reply that differs from the original one
C13_Witness ==
  /\ pc = "done"
  /\ FallbackObtainedContext
  /\ result.regenerated
  /\ result.text = retryContent
  /\ result.text # content
  /\ detectCannotAnswerResponse(content)

\* C14: a reply expressing inability to answer in English, Armenian or
\* Russian makes the failure detector fire and an ordinary reply does not;
\* when the fallback cycle that follows ends with an empty context, the turn
\* returns the original reply unchanged and without the marker.
C14_DetectorFiresAndOriginalReturned ==
  /\ \A r \in InabilityReplies : detectCannotAnswerResponse(r)
  /\ ~detectCannotAnswerResponse(OrdinaryReply)
  /\ Has(steps, "CHECK_FAILURE") =>
        (Has(steps, "FAILED") <=> content \in InabilityReplies)
  /\ (pc = "done" /\ Has(steps, "FAILED") /\ ~FallbackObtainedContext) =>
        result = [status |-> "returned", marker |-> FALSE, text |-> content,
                  regenerated |-> FALSE]

\* the Russian reply made the detector fire, the fallback results were judged
\* NOT_RELEVANT, and the turn returned the reply as it was
C14_Witness ==
  /\ pc = "done"
  /\ content = RussianReply
  /\ Has(steps, "FAILED")
  /\ Len(attempts) = 1
  /\ attempts[1].results # <<>>
  /\ attempts[1].decision = "NOT_RELEVANT"
  /\ result.text = RussianReply
  /\ ~result.marker

\* the sections of the page the loop of parseSearchResults has gone through
SectionsDone == {j \in 1..Len(html.sections) : j < sectionIndex}

\* C15: performWebSearch never returns more than 5 results, whatever the
\* page, also when the page has more than 10 well-formed result sections.
C15_AtMostFiveResults ==
  /\ Len(searchReturn.value) <= 5
  /\ Len(parsedResults) <= 10

\* a page with 11 well-formed sections: 10 are parsed and 5 are returned
C15_Witness ==
  /\ searchPc = "returned"
  /\ Len(html.sections) > 10
  /\ \A j \in 1..Len(html.sections) : html.sections[j] \in WellFormedSections
  /\ Len(parsedResults) = 10
  /\ Len(searchReturn.value) = 5

\* C16: every result performWebSearch returns has a url that starts with
\* 'http://' or 'https://', also when the url comes from decoding a
\* redirect (uddg=) link; a section whose decoded url has another scheme
\* adds no result.
C16_OnlyHttpUrls ==
  /\ \A k \in 1..Len(searchReturn.value) :
        searchReturn.value[k].url[1] \in {"http://", "https://"}
  /\ \A k \in 1..Len(parsedResults) :
        parsedResults[k].url[1] \in {"http://", "https://"}
  /\ Len(parsedResults) <=
        Cardinality({j \in SectionsDone :
                       LET u == DecodedUrl(html.sections[j]) IN
                       u # <<>> /\ u[1] \in {"http://", "https://"}})

\* a page whose first section is a redirect to an ftp url and whose other
\* sections are redirects to https urls: the first is dropped, the others
\* are returned with their decoded url
C16_Witness ==
  /\ searchPc = "returned"
  /\ Len(html.sections) = 3
  /\ html.sections[1].href = Redirect(<<"ftp%3A%2F%2F", "host">>)
  /\ html.sections[2].href = Redirect(<<"https%3A%2F%2F", "host", "%2Fpath">>)
  /\ Len(searchReturn.value) = 2
  /\ searchReturn.value[1].url = <<"https://", "host", "/path">>

\* the sections gone through whose redirect value decodeURIComponent rejects
SectionsFailed ==
  {j \in SectionsDone :
     /\ html.sections[j].link
     /\ uddgMatch(html.sections[j].href).found
     /\ DecodeThrows(uddgMatch(html.sections[j].href).group)}

\* C17 (as stated): performWebSearch never throws; a rejected fetch, a
\* non-success status, a failure reading the body or a parse failure each
\* make it return the empty list.
C17_FailureGivesEmptyList ==
  /\ searchReturn.status # "threw"
  /\ (searchReturn.status = "returned" /\ (html.fetch # "ok" \/ SectionsFailed # {}))
        => searchReturn.value = <<>>

\* C17 (amended): performWebSearch never throws; a rejected fetch, a
\* non-success status and a failure reading the body each make it return
\* the empty list; a failure while parsing one section drops that section
\* only, and the results of the other sections are still returned.
C17_NeverThrowsSectionFailureSkips ==
  /\ searchReturn.status # "threw"
  /\ (searchReturn.status = "returned" /\ html.fetch # "ok") => searchReturn.value = <<>>
  /\ (searchReturn.status = "returned" /\ html.fetch = "ok") =>
        LET kept == {j \in SectionsDone :
                       html.sections[j] \in WellFormedSections
                       \/ html.sections[j].href \in {Http, Redirect(<<"http%3A%2F%2F", "host">>)}}
        IN Len(searchReturn.value) = IF Cardinality(kept) < 5 THEN Cardinality(kept) ELSE 5

\* a page whose first section has an undecodable redirect value and whose
\* two other sections are well formed: two results are returned
C17_Witness ==
  /\ searchReturn.status = "returned"
  /\ Len(html.sections) = 3
  /\ SectionsFailed = {1}
  /\ Len(searchReturn.value) = 2

NeedCalls == SelectSeq(helperCalls, LAMBDA c : c[1] = "need")
RewriteCalls == SelectSeq(helperCalls, LAMBDA c : c[1] = "rewrite")

\* C18: when the completion call of the need assessment fails,
\* needsWebSearch returns false without throwing: the turn takes the
\* NO_SEARCH branch and goes on to the generation, and no search happens
\* before the first reply is generated.
C18_NeedFailureMeansNoSearch ==
  /\ Len(NeedCalls) <= 1
  /\ NeedCalls = << <<"need", "failed">> >> =>
        /\ Has(steps, "NO_SEARCH")
        /\ ~Has(steps, "SEARCH_NEEDED")
        /\ \A i \in DOMAIN attempts : attempts[i].afterGenerate
        /\ pc \in {"history", "generate"} \/ Has(steps, "GENERATE")

\* the need assessment failed and the turn returned an ordinary first reply
\* without any search
C18_Witness ==
  /\ pc = "done"
  /\ NeedCalls = << <<"need", "failed">> >>
  /\ result.status = "returned"
  /\ result.text = OrdinaryReply
  /\ ~result.marker
  /\ attempts = <<>>

\* C19: when the completion call of the rewrite fails,
\* rewriteQuestionForAgent returns the original question without throwing,
\* and the search that follows is issued with the original question.
C19_RewriteFailureUsesOriginal ==
  /\ Len(RewriteCalls) = Len(attempts) + (IF pc = "search" THEN 1 ELSE 0)
  /\ \A i \in DOMAIN attempts :
        RewriteCalls[i][2] = "failed" => attempts[i].query = "original"
  /\ (pc = "search" /\ RewriteCalls[Len(RewriteCalls)][2] = "failed") =>
        rewrittenQuestion = "original"

\* a turn whose proactive rewrite succeeded and whose fallback rewrite
\* failed: the second search was issued with the original question
C19_Witness ==
  /\ pc = "done"
  /\ Len(attempts) = 2
  /\ RewriteCalls[1][2] = "ok"
  /\ RewriteCalls[2][2] = "failed"
  /\ attempts[1].query = "rewritten"
  /\ attempts[2].query = "original"

DecisionToken(lines) ==
  LET d == FindDecisionLine(lines) IN
  IF d.found THEN trim(SubSeq(d.line, Len(DECISION) + 1, Len(d.line))) ELSE <<>>

\* C21: the classifier's output is parsed by exact match: the value returned
\* is RELEVANT only when the decision token is exactly RELEVANT, never merely
\* because the output contains RELEVANT as a substring.
C21_ExactMatchParsing ==
  (classifyReturn.status = "returned" /\ ~completion.failed
     /\ classifyReturn.value.isRelevant)
  => toUpperCase(DecisionToken(completion.lines)) = RELEVANT

NoResultNamesAgent ==
  \A i \in DOMAIN classifyResults :
    classifyResults[i].title # NamesAgent /\ classifyResults[i].snippet # NamesAgent

\* C25: for a result set in which no title or snippet contains the agent's
\* name (the empty set included) the classifier returns NOT_RELEVANT, whatever
\* the completion answers and whether or not it fails.
C25_UnnamedResultsNotRelevant ==
  (classifyReturn.status = "returned" /\ NoResultNamesAgent)
  => ~classifyReturn.value.isRelevant

\* where the handler goes after a log call, from the state before it
AfterLogRelevance == IF relevanceCheck.isRelevant THEN "summarize" ELSE "logweb"
AfterLogWeb ==
  IF phase = "proactive" THEN GeneratePc(variant)
  ELSE IF webSearchContext # <<>> THEN RegeneratePc(variant) ELSE "done"

\* C22: logWebSearch and logRelevanceCheck never throw: whether the write
\* succeeds or fails, the turn goes on to the same step with the same reply
\* as if logging had succeeded.
C22_LoggingNeverBlocksTurn ==
  [][/\ pc = "logrel" =>
          /\ pc' = AfterLogRelevance
          /\ result' = result /\ content' = content
     /\ pc = "logweb" =>
          /\ pc' = AfterLogWeb
          /\ content' = content
          /\ result' = IF AfterLogWeb = "done"
                       THEN FinalReturn(webSearchContext, content) ELSE result]_vars

\* a turn that returned a marked reply although both log writes of its
\* attempt failed
C22_Witness ==
  /\ pc = "done"
  /\ result.status = "returned"
  /\ result.marker
  /\ \E i \in DOMAIN attempts :
       /\ attempts[i].webLogged = "failed"
       /\ attempts[i].relevanceLogged = "write_failed"

\* C23: the audit logs are append-only under concurrent writers: an entry a
\* turn has written is never removed or changed by a later write, so when
\* several turns log at the same time every entry is present afterwards, in
\* the database-backed log and in the file-backed relevance log.
C23_AppendOnlyNoLostUpdate ==
  \A w \in DOMAIN writers :
    /\ writers[w].fileLogged => Has(logFile, w)
    /\ writers[w].dbLogged => Has(logTable, w)

\* C24: within one retrieval attempt the steps occur in the order rewrite,
\* retrieve, classify, summarize: classification starts only after retrieval
\* has returned and is given exactly the result list retrieval returned, and
\* summarization starts only after the decision is known.
C24_PipelineOrder ==
  /\ \A j \in DOMAIN steps :
       /\ steps[j] = "RETRIEVE" => j > 1 /\ steps[j - 1] = "REWRITE"
       /\ steps[j] = "CLASSIFY" => j > 1 /\ steps[j - 1] = "RETRIEVE"
       /\ steps[j] = "SUMMARIZE" =>
            j > 2 /\ steps[j - 1] = "RELEVANT" /\ steps[j - 2] = "CLASSIFY"
  /\ \A i \in DOMAIN attempts :
       /\ attempts[i].decision # "pending" => attempts[i].classified = attempts[i].results
       /\ attempts[i].summarized => attempts[i].decision # "pending"

\* an attempt that went through all four steps on a non-empty result list
C24_Witness ==
  /\ \E j \in DOMAIN steps :
       j > 4 /\ SubSeq(steps, j - 4, j) =
                  <<"REWRITE", "RETRIEVE", "CLASSIFY", "RELEVANT", "SUMMARIZE">>
  /\ \E i \in DOMAIN attempts :
       /\ attempts[i].summarized
       /\ attempts[i].results # <<>>
       /\ attempts[i].classified = attempts[i].results

\* the third parties a question names: its entity tokens other than the
\* agent's own name
ThirdParties ==
  {e \in {"president", "Nikol"} :
     Has(rewriteArgs.question, e) /\ e # rewriteArgs.agentName}

\* C26: for a question naming a third-party entity distinct from the agent's
\* name, that entity's tokens appear unchanged in the query
\* rewriteQuestionForAgent returns and are never replaced by the agent's name.
C26_EntityPreserved ==
  \A k \in DOMAIN rewriteReturns :
    \A e \in ThirdParties : Has(rewriteReturns[k], e)

C28_OverrideTakesPrecedence ==
  [][gateReads' # gateReads =>
       LET enabled == gateReads'[Len(gateReads')] IN
       /\ env # "unset" => (enabled <=> env = "true")
       /\ env = "unset" => (enabled <=> localDefault)]_vars

\* the gate was read as off from an override 'false' over a default of true
C28_Witness ==
  /\ pc = "need" \/ pc = GeneratePc(variant)
  /\ gateReads = <<FALSE>>
  /\ env = "false"
  /\ localDefault

\* the ways the claim lists for fetchAndSummarizeUrl to fail
PageFailures == {"rejected", "timed_out", "not_ok", "short", "summary_failed"}

\* C29: fetchAndSummarizeUrl returns null on every failure (a rejected or
\* timed-out fetch, a non-success status, a text that is too short, a failure
\* of the summarization call) and returns a string only when a summary was
\* actually produced.
C29_NullOnEveryFailure ==
  \A idx \in DOMAIN summaries :
    /\ summaries[idx].outcome \in PageFailures => summaries[idx].value.null
    /\ (summaries[idx].outcome # "pending" /\ ~summaries[idx].value.null)
         => summaries[idx].outcome \in {"summarized", "empty_summary"}

\* C30: the context block holds at most 3 sources; each selected result
\* contributes exactly one '[Source N]' entry, N running 1..k without gaps,
\* whose body is the page summary when fetchAndSummarizeUrl returned one and
\* the original snippet when it returned null: a failed page fetch never
\* drops a selected result.
C30_ContextBlock ==
  formatReturn.status = "returned" =>
    LET ctx == formatReturn.value
        final == FinalResults(formatResults)
    IN /\ Len(ctx) <= 3
       /\ Len(ctx) = Len(final)
       /\ \A n \in DOMAIN ctx :
            /\ ctx[n].source = n
            /\ ctx[n].title = final[n].title
            /\ ctx[n].url = final[n].url
            /\ ctx[n].summary =
                 IF summaries[n].value.null \/ summaries[n].value.kind = "empty"
                 THEN [null |-> FALSE, kind |-> "snippet", of |-> final[n].snippet]
                 ELSE summaries[n].value

\* a block of three sources cut from four results, one with the snippet of a
\* result whose page fetch failed, one with a page summary
C30_Witness ==
  /\ formatReturn.status = "returned"
  /\ Len(formatResults) = 4
  /\ Len(formatReturn.value) = 3
  /\ \E n \in DOMAIN summaries :
       summaries[n].outcome = "rejected" /\ formatReturn.value[n].summary.kind = "snippet"
  /\ \E n \in DOMAIN summaries :
       summaries[n].outcome = "summarized" /\ formatReturn.value[n].summary.kind = "summary"

\* C31: the text handed to the summarization call always has between 100 and
\* 5,000 characters: extracted text under 100 characters is rejected (null is
\* returned and no summarization call is made), longer text is cut to its
\* first 5,000 characters.
C31_SummarizedTextLength ==
  /\ handed # -1 => handed >= 100 /\ handed <= 5000
  /\ handed # -1 => handed = (IF page.length < 5000 THEN page.length ELSE 5000)
  /\ (pagePc = "returned" /\ page.fetch = "ok" /\ page.length < 100)
       => pageReturn.value.null /\ handed = -1

\* a page of more than 5,000 characters was summarized from its first 5,000
C31_Witness ==
  /\ pagePc = "returned"
  /\ page.length > 5000
  /\ handed = 5000
  /\ ~pageReturn.value.null

\* a result block is well formed when it has a title link, its redirect
\* value (when it has one) can be decoded, its url starts with http:// or
\* https://, and its title is not empty
WellFormedBlocks ==
  {j \in 1..Len(html.sections) :
     LET sec == html.sections[j] IN
     /\ sec.link
     /\ ~(uddgMatch(sec.href).found /\ DecodeThrows(uddgMatch(sec.href).group))
     /\ IsHttpUrl(DecodedUrl(sec))
     /\ sec.title # ""}

\* C32: performWebSearch is rank-preserving: what it returns is the first
\* (up to 5) well-formed results of the page, in the order of their result
\* blocks, with no result reordered or duplicated: the k-th result returned
\* is the result of the k-th well-formed block.
C32_RankPreserving ==
  (searchReturn.status = "returned" /\ html.fetch = "ok") =>
     LET v == searchReturn.value IN
     /\ Len(v) = IF Cardinality(WellFormedBlocks) < 5 THEN Cardinality(WellFormedBlocks) ELSE 5
     /\ \A k \in 1..(Len(v) - 1) : v[k].block < v[k + 1].block
     /\ \A k \in 1..Len(v) :
          /\ v[k].block \in WellFormedBlocks
          /\ Cardinality({j \in WellFormedBlocks : j < v[k].block}) = k - 1
          /\ v[k].title = html.sections[v[k].block].title
          /\ v[k].url = DecodedUrl(html.sections[v[k].block])

\* a page of seven blocks whose second block is not well formed: the results
\* returned are those of blocks 1, 3, 4, 5 and 6, in that order
C32_Witness ==
  /\ searchReturn.status = "returned"
  /\ html.fetch = "ok"
  /\ Len(html.sections) = 7
  /\ 2 \notin WellFormedBlocks
  /\ [k \in 1..Len(searchReturn.value) |-> searchReturn.value[k].block] = <<1, 3, 4, 5, 6>>

\* C33: a malformed result block (no title link, undecodable redirect url,
\* non-http url or empty title) is skipped without affecting the other
\* blocks: it adds no result, and every well-formed block before and after
\* it that has fewer than 5 well-formed blocks before it is parsed and
\* returned.
C33_MalformedBlockSkipped ==
  /\ \A k \in 1..Len(parsedResults) : parsedResults[k].block \in WellFormedBlocks
  /\ \A j \in WellFormedBlocks \cap SectionsDone :
        Cardinality({i \in WellFormedBlocks : i < j}) < 10
          => \E k \in 1..Len(parsedResults) : parsedResults[k].block = j
  /\ (searchReturn.status = "returned" /\ html.fetch = "ok") =>
        \A j \in 1..Len(html.sections) :
           (\E k \in 1..Len(searchReturn.value) : searchReturn.value[k].block = j)
             <=> (j \in WellFormedBlocks /\ Cardinality({i \in WellFormedBlocks : i < j}) < 5)

\* a page of four blocks whose second block has an undecodable redirect
\* value: the block before it and the two blocks after it are returned
C33_Witness ==
  /\ searchReturn.status = "returned"
  /\ html.fetch = "ok"
  /\ Len(html.sections) = 4
  /\ SectionsFailed = {2}
  /\ {searchReturn.value[k].block : k \in 1..Len(searchReturn.value)} = {1, 3, 4}

\* the stages of the turn so far found the augmentation switched off: every
\* read of the feature gate gave false, or the other player has sent no
\* message with non-empty text
AugmentationOff ==
  \/ msg # "text"
  \/ gateReads # <<>> /\ \A k \in 1..Len(gateReads) : ~gateReads[k]

\* C34: when the feature gate is disabled, or the other player has sent no
\* message with non-empty text, the turn performs no need assessment, no
\* rewrite, no search, no page fetch and no classification, writes no audit
\* entry of either kind, and returns the generated reply without the
\* augmentation marker, also when that reply matches a failure pattern.
C34_NothingWhenOff ==
  AugmentationOff =>
     /\ \A k \in 1..Len(steps) :
           steps[k] \notin {"NEED_CHECK", "REWRITE", "RETRIEVE", "CLASSIFY", "SUMMARIZE",
                            "REGENERATE"}
     /\ NeedCalls = <<>> /\ RewriteCalls = <<>>
     /\ attempts = <<>>
     /\ webSearchLogs = <<>>
     /\ relevanceLogs = <<>>
     /\ webSearchContext = <<>>
     /\ result.status = "returned" =>
           ~result.marker /\ ~result.regenerated /\ result.text = content

\* the gate was disabled at both reads, the other player had asked a
\* question, and the reply that matches a failure pattern was returned as is
C34_Witness ==
  /\ pc = "done"
  /\ msg = "text"
  /\ gateReads = <<FALSE, FALSE>>
  /\ detectCannotAnswerResponse(content)
  /\ result.status = "returned"
  /\ result.text = content
  /\ ~result.marker

\* C35: the feature gate is read once per turn: the proactive stage and the
\* fallback stage of the same turn always act on the same gate value, also
\* when the externally supplied override changes while the turn is
\* suspended.
C35_GateReadOnce ==
  \A j, k \in 1..Len(gateReads) : gateReads[j] = gateReads[k]

\* C36: in every WebSearchLogEntry written, resultCount is the number of
\* entries of searchResults, and success is true exactly when
\* formattedContext is populated; this holds for proactive and for fallback
\* entries, whose success is computed by different expressions.
C36_EntryFieldsAgree ==
  \A k \in 1..Len(webSearchLogs) :
     LET e == webSearchLogs[k] IN
     /\ e.resultCount = Len(e.searchResults)
     /\ e.success <=> e.formattedContext.defined
     /\ e.formattedContext.defined => e.formattedContext.value # <<>>

\* a turn that wrote a proactive entry without success for results found
\* not relevant, and then a fallback entry with success and a context
C36_Witness ==
  /\ Len(webSearchLogs) = 2
  /\ webSearchLogs[1].triggerType = "proactive"
  /\ webSearchLogs[1].resultCount = 1
  /\ ~webSearchLogs[1].success
  /\ ~webSearchLogs[1].formattedContext.defined
  /\ webSearchLogs[2].triggerType = "fallback"
  /\ webSearchLogs[2].resultCount = 1
  /\ webSearchLogs[2].success
  /\ webSearchLogs[2].formattedContext.defined

\* the attempt is past the branch on relevanceCheck.isRelevant and past the
\* summarization that branch may start
PastSummarization(a) == a < Len(attempts) \/ pc \notin {"logrel", "summarize"}

\* C37: the decision stored in a RelevanceDecision record is the decision
\* that gated the pipeline for that attempt: the record says RELEVANT exactly
\* when summarization was invoked for that attempt, and its searchResults and
\* rewrittenQuestion are the result list and the query of that same attempt.
C37_RecordMatchesAttempt ==
  \A k \in 1..Len(relevanceLogs) :
     LET rec == relevanceLogs[k]
         att == attempts[rec.attempt]
     IN
     /\ rec.attempt \in 1..Len(attempts)
     /\ rec.decision = att.decision
     /\ PastSummarization(rec.attempt) => (rec.decision = "RELEVANT" <=> att.summarized)
     /\ rec.rewrittenQuestion = att.query
     /\ Len(rec.searchResults) = Len(att.results)
     /\ \A i \in 1..Len(att.results) :
          /\ rec.searchResults[i].title = att.results[i].title
          /\ rec.searchResults[i].url = att.results[i].url
          /\ rec.searchResults[i].snippet = att.results[i].snippet
          /\ rec.searchResults[i] = StripResult(att.classified[i])

\* a turn with two records: the first, NOT_RELEVANT, of a proactive attempt
\* that was not summarized; the second, RELEVANT, of a fallback attempt with
\* another query that was summarized
C37_Witness ==
  /\ pc = "done"
  /\ Len(relevanceLogs) = 2
  /\ relevanceLogs[1].attempt = 1
  /\ relevanceLogs[1].decision = "NOT_RELEVANT"
  /\ ~attempts[1].summarized
  /\ relevanceLogs[2].attempt = 2
  /\ relevanceLogs[2].decision = "RELEVANT"
  /\ attempts[2].summarized
  /\ relevanceLogs[1].rewrittenQuestion # relevanceLogs[2].rewrittenQuestion
  /\ Len(relevanceLogs[2].searchResults) = 1

\* steps, audit entries and marking of a turn: the pipeline steps, the
\* decision of each RelevanceDecision record, the success and triggerType of
\* each WebSearchLogEntry, whether the turn returned and with the marker
Flow(st, rel, web, res) ==
  [steps |-> st,
   decisions |-> [k \in 1..Len(rel) |-> rel[k].decision],
   entries |-> [k \in 1..Len(web) |-> <<web[k].success, web[k].triggerType>>],
   returned |-> res.status,
   marker |-> res.marker]

\* the continue turn has followed the start turn so far, and once finished
\* has made the same steps, written the same audit entries and marked the
\* reply the same way
FollowsFirst ==
  /\ Len(steps) <= Len(first.steps)
  /\ \A k \in 1..Len(steps) : steps[k] = first.steps[k]
  /\ pc = "done" =>
        Flow(steps, relevanceLogs, webSearchLogs, result)
          = Flow(first.steps, first.relevanceLogs, first.webSearchLogs, first.result)

C39_OrderOfCompletionIrrelevant ==
  /\ \A idx \in DOMAIN summaries :
        (summaries[idx].outcome # "pending") <=> Has(completed, idx)
  /\ \A idx \in DOMAIN summaries :
        ~summaries[idx].value.null
          => summaries[idx].value.of = FinalResults(formatResults)[idx].url
  /\ formatReturn.status = "returned" =>
       LET ctx == formatReturn.value
           final == FinalResults(formatResults)
       IN /\ Len(ctx) = Len(final)
          /\ \A n \in DOMAIN ctx :
               /\ ctx[n].source = n
               /\ ctx[n].title = final[n].title
               /\ ctx[n].url = final[n].url
               /\ ctx[n].summary.of =
                    IF ctx[n].summary.kind = "snippet" THEN final[n].snippet ELSE final[n].url
               /\ ctx[n].summary = OrSnippet(fetchAndSummarizeUrl(final[n], summaries[n].outcome),
                                             final[n])

\* the page call of the third selected result ended first and that of the
\* first ended last; the block lists the three results in their own order,
\* each with its own summary
C39_Witness ==
  /\ formatReturn.status = "returned"
  /\ completed = <<3, 2, 1>>
  /\ Len(formatReturn.value) = 3
  /\ \A n \in 1..3 :
       /\ summaries[n].outcome = "summarized"
       /\ formatReturn.value[n].source = n
       /\ formatReturn.value[n].url = FinalResults(formatResults)[n].url
       /\ formatReturn.value[n].summary.kind = "summary"
       /\ formatReturn.value[n].summary.of = FinalResults(formatResults)[n].url
  /\ FinalResults(formatResults)[1].url # FinalResults(formatResults)[2].url
====
